---- MODULE Spec2Model ----
(***************************************************************************)
(* GridPilot: home-battery controller.  A model of                         *)
(*   - the strategy engine and the fallback strategy (strategy/engine.py,  *)
(*     strategy/fallback.py) over snapshots built by the data collector    *)
(*     (data/collector.py),                                                *)
(*   - the engine loop with its health monitor (core/engine.py,            *)
(*     core/health.py),                                                    *)
(*   - the retry/deadline helper and the monitor loop (monitor.py),        *)
(*   - the day-ahead planner (strategy/planner.py).                        *)
(*                                                                         *)
(* Units.  Prices are whole cents per kWh.  Power is in tenths of a kW     *)
(* (5.0 kW = 50).  Energy is in hundredths of a kWh (13.5 kWh = 1350).     *)
(* Confidence is in percent (0.95 = 95).  Time in the retry helper is in   *)
(* seconds.  Comparisons between quotients are made exact by multiplying   *)
(* both sides with the (positive) denominators.                            *)
(***************************************************************************)
EXTENDS Integers, Sequences, FiniteSets, TLC

VARIABLES
    pc,          \* position of the process the specification runs
    cfg,         \* Config (core/config.py), read once at start
    now_hour,    \* datetime.now().hour as read by the current tick
    weekday,     \* datetime.now().weekday() < 5
    snap,        \* the Snapshot of the current tick (or NoSnap)
    decision,    \* the Decision of the current tick (or NoDecision)
    shutdown,    \* the asyncio.Event set by SIGTERM/SIGINT
    tick,        \* number of loop iterations started
    health,      \* HealthMonitor.status
    alerts,      \* number of HealthMonitor._alert calls
    summaries,   \* number of hourly health summaries logged by the loop
    log,         \* the decision log: entries appended by DecisionLog.record
    failed,      \* the sources whose request failed in the current tick
    signal_at,   \* where the loop was when the signal arrived (or NoSignal)
    closed,      \* collector.close() has run
    amber_down_run, \* consecutive snapshots without a current import price
    finished,    \* collect(): the tasks of the gather that are done, in order
    deadline_seconds, \* http_retry: the deadline_seconds argument
    backoff,     \* http_retry: the backoff argument
    attempt,     \* http_retry: the attempt counter
    clock,       \* http_retry: time.monotonic() - start, in seconds
    wait,        \* http_retry: the last wait computed
    ret,         \* http_retry: the value returned (or NoReturn)
    first_success, \* the attempt that first succeeded (0: none so far)
    seen,        \* the outcomes of the attempts made so far
    plan_in,     \* build_day_plan: its arguments (or NoPlanInput)
    windows,     \* build_day_plan: the 30-minute windows
    schedule,    \* build_day_plan: the ScheduledActions appended so far
    charged_windows, \* build_day_plan: keys of the windows charged from grid
    sold_windows,    \* build_day_plan: keys of the windows sold to the grid
    remaining_capacity, \* build_day_plan: energy left to trade, kWh/100
    pairs,       \* build_day_plan: the charge->sell pairs committed so far
    day_plan,    \* the DayPlan returned last (or NoPlan)
    cycle,       \* monitor.py run(): the cycle counter
    now_minute,  \* monitor.py run(): datetime.now().minute of the cycle
    last_plan_hour, \* monitor.py run(): hour of the last plan rebuild
    fetched,     \* monitor.py run(): what the fetch_* calls returned
    advice,      \* monitor.py run(): (action, reason, confidence) written
    ticks        \* monitor.py run(): what each completed cycle saw and did

decideVars == <<cfg, now_hour, weekday, snap, decision>>

engineVars ==
    <<shutdown, tick, health, alerts, summaries, log, failed, signal_at, closed,
      amber_down_run, finished>>

retryVars ==
    <<deadline_seconds, backoff, attempt, clock, wait, ret, first_success, seen>>

planVars ==
    <<plan_in, windows, schedule, charged_windows, sold_windows,
      remaining_capacity, pairs, day_plan>>

monVars == <<cycle, now_minute, last_plan_hour, fetched, advice, ticks>>

\* The variables of monitor.py and of the functions only it calls.
monitorSideVars == <<retryVars, planVars, monVars>>

vars ==
    <<pc, cfg, now_hour, weekday, snap, decision,
      shutdown, tick, health, alerts, summaries, log, failed, signal_at, closed,
      amber_down_run, finished, deadline_seconds, backoff, attempt, clock, wait, ret, first_success,
      seen, plan_in, windows, schedule, charged_windows, sold_windows,
      remaining_capacity, pairs, day_plan, cycle, now_minute, last_plan_hour,
      fetched, advice, ticks>>

Min(a, b) == IF a <= b THEN a ELSE b
Max(a, b) == IF a >= b THEN a ELSE b
Abs(a) == IF a < 0 THEN -a ELSE a

RECURSIVE SeqSum(_)
SeqSum(s) == IF s = <<>> THEN 0 ELSE Head(s) + SeqSum(Tail(s))

RECURSIVE SeqMax(_, _)
\* max(iterable, default=d)
SeqMax(s, d) ==
    IF s = <<>> THEN d
    ELSE LET m == SeqMax(Tail(s), Head(s)) IN Max(Head(s), m)

SelectChannel(s, ch) == SelectSeq(s, LAMBDA p : p.channel = ch)

(***************************************************************************)
(* core/config.py                                                          *)
(***************************************************************************)
DefaultConfig ==
    [ battery_capacity_kwh          |-> 1350,  \* 13.5 kWh
      battery_max_charge_kw         |-> 50,    \* 5.0 kW
      battery_max_discharge_kw      |-> 50,    \* 5.0 kW
      battery_round_trip_efficiency |-> 90,    \* 0.9, in percent
      battery_min_soc_pct           |-> 20,
      battery_cycle_cost_cents      |-> 5,
      charge_price_threshold_cents  |-> 8,
      sell_price_threshold_cents    |-> 25,
      spike_reserve_soc_pct         |-> 40 ]

\* The same Config with environment overrides: a lossless battery without
\* degradation cost and a full spike reserve.
EnvConfig ==
    [ DefaultConfig EXCEPT !.battery_round_trip_efficiency = 100,
                           !.battery_cycle_cost_cents = 0,
                           !.spike_reserve_soc_pct = 100 ]

\* The same Config for a small inverter (BATTERY_MAX_CHARGE_KW=1.0,
\* BATTERY_MAX_DISCHARGE_KW=3.0): the house load can exceed what it delivers.
SmallInverterConfig ==
    [ DefaultConfig EXCEPT !.battery_max_charge_kw = 10,
                           !.battery_max_discharge_kw = 30 ]

Configs == {DefaultConfig, EnvConfig, SmallInverterConfig}

(***************************************************************************)
(* models/types.py                                                         *)
(***************************************************************************)
BatteryActions ==
    {"charge_grid", "charge_solar", "discharge_grid", "discharge_house", "idle"}

\* BatteryState.usable_kwh
usable_kwh(b) ==
    Max(0, b.soc_kwh - (b.capacity_kwh * b.min_soc_pct) \div 100)

\* BatteryState.headroom_kwh
headroom_kwh(b) == b.capacity_kwh - b.soc_kwh

\* The BatteryState built from the Config with a state of charge of soc
\* percent.  The source reads no inverter yet and always passes soc = 50.
BatteryAt(c, soc) ==
    [ soc_pct               |-> soc,
      soc_kwh               |-> (c.battery_capacity_kwh * soc) \div 100,
      capacity_kwh          |-> c.battery_capacity_kwh,
      max_charge_kw         |-> c.battery_max_charge_kw,
      max_discharge_kw      |-> c.battery_max_discharge_kw,
      round_trip_efficiency |-> c.battery_round_trip_efficiency,
      cycle_cost_cents      |-> c.battery_cycle_cost_cents,
      min_soc_pct           |-> c.battery_min_soc_pct ]

\* DataCollector._default_battery and AmberClient.get_battery_state
DefaultSoc == 50
_default_battery(c) == BatteryAt(c, DefaultSoc)

NoPrice == [channel |-> "none"]
NoSnap == [timestamp |-> "none"]
NoDecision == [action |-> "none"]

Decision(action, power, reason, confidence) ==
    [ action |-> action, power_kw |-> power, reason |-> reason,
      confidence |-> confidence ]

\* A reason is the sequence of its parts: the literal text it begins with,
\* then the formatted values ("{...}") and the text that follow.
StartsWith(reason, prefix) == Len(reason) > 0 /\ reason[1] = prefix

(***************************************************************************)
(* data/collector.py                                                       *)
(***************************************************************************)
\* What asyncio.gather(..., return_exceptions=True) hands back for a task:
\* the exception it raised, or the value it returned.
Raised == [raised |-> TRUE]
Returned(v) == [raised |-> FALSE, value |-> v]

Sources == {"current", "forecast", "battery", "solar", "grid"}

ZeroGridState == [demand_mw |-> 0, price_aud_mwh |-> 0, renewables_pct |-> 0]

\* DataCollector._predict_load_from_history: the time-of-day table, in
\* tenths of a kW (the history argument is read and then ignored).
_predict_load_from_history(history, hour, is_weekday) ==
    IF 6 <= hour /\ hour < 9 THEN (IF is_weekday THEN 25 ELSE 15)
    ELSE IF 9 <= hour /\ hour < 16 THEN (IF is_weekday THEN 8 ELSE 15)
    ELSE IF 16 <= hour /\ hour < 21 THEN 35
    ELSE IF 21 <= hour /\ hour < 24 THEN 15
    ELSE 5

\* next((p for p in prices if p.channel == ch), None)
FirstOfChannel(prices, ch) ==
    LET m == SelectChannel(prices, ch) IN
    IF m = <<>> THEN NoPrice ELSE Head(m)

\* DataCollector.collect after the gather: results is a record with one
\* field per source, each Raised or Returned(value).
Merge(results, c, hour, is_weekday) ==
    LET current_prices ==
            IF results.current.raised THEN <<>> ELSE results.current.value
        all_prices ==
            IF results.forecast.raised THEN <<>> ELSE results.forecast.value
        battery ==
            IF results.battery.raised THEN _default_battery(c)
            ELSE results.battery.value
        solar == IF results.solar.raised THEN <<>> ELSE results.solar.value
        grid ==
            IF results.grid.raised THEN ZeroGridState ELSE results.grid.value
        history ==
            SelectSeq(all_prices, LAMBDA p : p.interval_type = "ActualInterval")
        forecast ==
            SelectSeq(all_prices, LAMBDA p : p.interval_type = "ForecastInterval")
        import_price == FirstOfChannel(current_prices, "general")
        export_price == FirstOfChannel(current_prices, "feedIn")
    IN  [ timestamp            |-> "now",
          current_import_price |-> import_price,
          current_export_price |-> export_price,
          price_forecast       |-> forecast,
          price_history        |-> history,
          battery              |-> battery,
          solar_forecast       |-> solar,
          current_solar_kw     |->
              IF solar # <<>> THEN solar[1].generation_kw ELSE 0,
          grid_state           |-> grid,
          predicted_load_kw    |->
              _predict_load_from_history(history, hour, is_weekday),
          vpp_event_active     |->
              \E i \in 1..Len(current_prices) :
                  /\ current_prices[i].spike_status = "actual"
                  /\ current_prices[i].channel = "feedIn",
          tariff_period        |->
              IF import_price # NoPrice /\ import_price.tariff # "none"
              THEN import_price.tariff ELSE "unknown",
          descriptor           |->
              IF import_price # NoPrice THEN import_price.descriptor
              ELSE "neutral" ]

(***************************************************************************)
(* strategy/fallback.py                                                    *)
(***************************************************************************)
\* the evening rule without its test of the battery
FallbackEveningGuard_HourOnly(hour, battery) == 16 <= hour /\ hour < 21

FallbackEveningGuard(hour, battery) ==
    16 <= hour /\ hour < 21 /\ usable_kwh(battery) > 0

FallbackDaytimeGuard(hour, battery) ==
    9 <= hour /\ hour < 16 /\ headroom_kwh(battery) > 0

\* FallbackStrategy.decide
FallbackDecide(battery, hour) ==
    IF FallbackEveningGuard(hour, battery) THEN
        Decision("discharge_house", battery.max_discharge_kw,
                 <<"FALLBACK:", " evening peak - self-consume">>, 50)
    ELSE IF FallbackDaytimeGuard(hour, battery) THEN
        Decision("charge_solar", battery.max_charge_kw \div 2,
                 <<"FALLBACK:", " daytime - assume solar available">>, 30)
    ELSE
        Decision("idle", 0,
                 <<"FALLBACK:", " no data, preserving battery">>, 30)

(***************************************************************************)
(* strategy/engine.py                                                      *)
(***************************************************************************)
import_cents(s) ==
    IF s.current_import_price # NoPrice
    THEN s.current_import_price.per_kwh_cents ELSE 30

export_cents(s) ==
    IF s.current_export_price # NoPrice
    THEN Abs(s.current_export_price.per_kwh_cents) ELSE 5

spike(s) ==
    IF s.current_import_price # NoPrice
    THEN s.current_import_price.spike_status ELSE "none"

descriptor(s) ==
    IF s.current_import_price # NoPrice
    THEN s.current_import_price.descriptor ELSE "neutral"

Cents(prices) == [i \in 1..Len(prices) |-> prices[i].per_kwh_cents]

forecast_general(s) == Cents(SelectChannel(s.price_forecast, "general"))

\* forecast_feedin[:36], the next three hours of 5-minute intervals
NextThreeHours == 36
forecast_feedin(s) ==
    LET f == Cents(SelectChannel(s.price_forecast, "feedIn")) IN
    SubSeq(f, 1, Min(Len(f), NextThreeHours))

peak_price(s) == SeqMax(forecast_general(s), 30)

\* avg_price as the fraction sum / n
avg_price_sum(s) ==
    IF forecast_general(s) # <<>> THEN SeqSum(forecast_general(s)) ELSE 30
avg_price_n(s) ==
    IF forecast_general(s) # <<>> THEN Len(forecast_general(s)) ELSE 1

\* margin = peak_price - import_cents / efficiency - cycle_cost  >  k, with
\* cycle_cost = cycle_cost_cents * max_charge_kw * (1/12) / capacity_kwh;
\* both sides multiplied by efficiency * 12 * capacity_kwh.
MarginAbove(s, k) ==
    LET b == s.battery IN
    peak_price(s) * b.round_trip_efficiency * 12 * b.capacity_kwh
      - import_cents(s) * 100 * 12 * b.capacity_kwh
      - b.cycle_cost_cents * b.max_charge_kw * 10 * b.round_trip_efficiency
    > k * b.round_trip_efficiency * 12 * b.capacity_kwh

\* the VPP rule placed behind the actual-spike rule
VppGuard_AfterSpike(s) ==
    s.vpp_event_active /\ usable_kwh(s.battery) > 0 /\ spike(s) # "actual"

\* 1. VPP event
VppGuard(s) == s.vpp_event_active /\ usable_kwh(s.battery) > 0

ActualSpikeGuard_NoUsableCheck(s) == spike(s) = "actual"

\* 2. Actual spike
ActualSpikeGuard(s) == spike(s) = "actual" /\ usable_kwh(s.battery) > 0

PotentialSpikeGuard_NoReserve(s, c) == spike(s) = "potential"

\* 3. Potential spike
PotentialSpikeGuard(s, c) ==
    spike(s) = "potential" /\ s.battery.soc_pct < c.spike_reserve_soc_pct

\* 4. Negative price
NegativePriceGuard(s) == import_cents(s) <= 0 /\ headroom_kwh(s.battery) > 0

\* 5. Extremely low / very low price
LowPriceGuard(s) ==
    /\ descriptor(s) \in {"extremelyLow", "veryLow"}
    /\ headroom_kwh(s.battery) > 0
    /\ MarginAbove(s, 5)

\* 6. Cheap grid below threshold
BelowThresholdGuard(s, c) ==
    /\ import_cents(s) < c.charge_price_threshold_cents
    /\ headroom_kwh(s.battery) > 0
    /\ MarginAbove(s, 8)

\* any(abs(p.per_kwh_cents) > export_cents * 1.3 for p in forecast_feedin[:36])
future_higher(s) ==
    \E i \in 1..Len(forecast_feedin(s)) :
        10 * Abs(forecast_feedin(s)[i]) > 13 * export_cents(s)

\* 7. High export price
HighExportGuard(s, c) ==
    /\ export_cents(s) > c.sell_price_threshold_cents
    /\ usable_kwh(s.battery) > 0
    /\ ~future_higher(s)

\* 8. Solar excess (0.3 kW)
solar_excess(s) == s.current_solar_kw - s.predicted_load_kw
SolarExcessGuard(s) == solar_excess(s) > 3 /\ headroom_kwh(s.battery) > 0

\* the house load handed on without the min() against the inverter rating
self_consume_power_Unclamped(s) == s.predicted_load_kw

\* min(snap.predicted_load_kw, battery.max_discharge_kw)
self_consume_power(s) == Min(s.predicted_load_kw, s.battery.max_discharge_kw)

\* 9. Self-consume: savings > degradation, both sides multiplied by
\* 12 * capacity_kwh
SelfConsumeGuard(s) ==
    /\ \/ s.tariff_period = "peak"
       \/ import_cents(s) * avg_price_n(s) * 10 > 12 * avg_price_sum(s)
    /\ usable_kwh(s.battery) > 0
    /\ import_cents(s) * self_consume_power(s) * s.battery.capacity_kwh
         > s.battery.cycle_cost_cents * self_consume_power(s) * 100

\* StrategyEngine.decide (expected_value_cents and the factors audit map are
\* outputs no rule reads; they are left out)
StrategyDecide(s, c) ==
    LET b == s.battery IN
    IF VppGuard(s) THEN
        Decision("discharge_grid", b.max_discharge_kw,
                 <<"VPP event active - max discharge for bonus revenue">>, 95)
    ELSE IF ActualSpikeGuard(s) THEN
        Decision("discharge_house", self_consume_power(s),
                 <<"SPIKE ACTIVE (", "{import_cents}">>, 99)
    ELSE IF PotentialSpikeGuard(s, c) THEN
        Decision("charge_grid", b.max_charge_kw,
                 <<"Potential spike - charging to ", "{reserve}">>,
                 70)
    ELSE IF NegativePriceGuard(s) THEN
        Decision("charge_grid", b.max_charge_kw,
                 <<"NEGATIVE price (", "{import_cents}">>, 99)
    ELSE IF LowPriceGuard(s) THEN
        Decision("charge_grid", b.max_charge_kw,
                 <<"Low price (", "{import_cents}">>, 80)
    ELSE IF BelowThresholdGuard(s, c) THEN
        Decision("charge_grid", b.max_charge_kw,
                 <<"Below threshold (", "{import_cents}">>, 75)
    ELSE IF HighExportGuard(s, c) THEN
        Decision("discharge_grid", b.max_discharge_kw,
                 <<"High export (", "{export_cents}">>, 85)
    ELSE IF SolarExcessGuard(s) THEN
        Decision("charge_solar", Min(solar_excess(s), b.max_charge_kw),
                 <<"Solar excess (", "{solar_excess}">>, 90)
    ELSE IF SelfConsumeGuard(s) THEN
        Decision("discharge_house", self_consume_power(s),
                 <<"Self-consume - ", "{tariff_period}">>, 70)
    ELSE
        Decision("idle", 0, <<"No action - ", "{import_cents}">>, 60)

\* Where decide divides: rules 5 and 6 by round_trip_efficiency and by
\* capacity_kwh once the battery has headroom, rule 9 by capacity_kwh once
\* the battery has usable energy.
LowPriceDivides(s) ==
    descriptor(s) \in {"extremelyLow", "veryLow"} /\ headroom_kwh(s.battery) > 0

BelowThresholdDivides(s, c) ==
    import_cents(s) < c.charge_price_threshold_cents
        /\ headroom_kwh(s.battery) > 0

\* rule 9 dividing before it has looked at the usable energy
SelfConsumeDivides_NoUsableCheck(s) ==
    \/ s.tariff_period = "peak"
    \/ import_cents(s) * avg_price_n(s) * 10 > 12 * avg_price_sum(s)

SelfConsumeDivides(s) ==
    /\ \/ s.tariff_period = "peak"
       \/ import_cents(s) * avg_price_n(s) * 10 > 12 * avg_price_sum(s)
    /\ usable_kwh(s.battery) > 0

\* StrategyEngine.decide raises ZeroDivisionError: a rule that divides is
\* reached with a zero divisor.
decide_raises(s, c) ==
    LET b == s.battery IN
    /\ ~VppGuard(s) /\ ~ActualSpikeGuard(s)
    /\ ~PotentialSpikeGuard(s, c) /\ ~NegativePriceGuard(s)
    /\ \/ /\ LowPriceDivides(s)
          /\ (b.round_trip_efficiency = 0 \/ b.capacity_kwh = 0)
       \/ /\ ~LowPriceGuard(s)
          /\ BelowThresholdDivides(s, c)
          /\ (b.round_trip_efficiency = 0 \/ b.capacity_kwh = 0)
       \/ /\ ~LowPriceGuard(s) /\ ~BelowThresholdGuard(s, c)
          /\ ~HighExportGuard(s, c) /\ ~SolarExcessGuard(s)
          /\ SelfConsumeDivides(s)
          /\ b.capacity_kwh = 0

(***************************************************************************)
(* core/health.py                                                          *)
(***************************************************************************)
\* HealthStatus()
HealthStatus0 ==
    [ last_successful_cycle |-> 0,      \* None
      consecutive_failures  |-> 0,
      total_cycles          |-> 0,
      total_failures        |-> 0,
      api_status            |-> [n \in {"amber", "weather", "aemo"} |-> TRUE] ]

is_degraded(h) == ~(\A n \in DOMAIN h.api_status : h.api_status[n])

\* is_critical without the test of the retailer's entry
is_critical_FailuresOnly(h) == h.consecutive_failures >= 3

is_critical(h) == h.consecutive_failures >= 3 \/ ~h.api_status["amber"]

\* HealthMonitor(max_failures_before_alert = 3)
max_failures_before_alert == 3

\* HealthMonitor.record_success; now is the tick whose clock it reads
record_success(h, now) ==
    [ h EXCEPT !.last_successful_cycle = now,
               !.consecutive_failures = 0,
               !.total_cycles = @ + 1 ]

\* HealthMonitor.record_failure
record_failure(h) ==
    [ h EXCEPT !.consecutive_failures = @ + 1,
               !.total_failures = @ + 1,
               !.total_cycles = @ + 1 ]

\* the guard with `>` for `>=`
alert_raised_Above(h) == h.consecutive_failures > max_failures_before_alert

\* the guard of the _alert call in record_failure, on the updated status
alert_raised(h) == h.consecutive_failures >= max_failures_before_alert

\* HealthMonitor.record_api_status
record_api_status(h, api_name, healthy) ==
    [ h EXCEPT !.api_status = (api_name :> healthy) @@ @ ]

NoSignal == [pc |-> "none", tick |-> 0]

\* The state of the engine loop while another specification runs.
EngineIdle ==
    /\ shutdown = FALSE
    /\ tick = 0
    /\ health = HealthStatus0
    /\ alerts = 0
    /\ summaries = 0
    /\ log = <<>>
    /\ failed = {}
    /\ signal_at = NoSignal
    /\ closed = FALSE
    /\ amber_down_run = 0
    /\ finished = <<>>

NoReturn == [kind |-> "none"]

\* http_retry while another specification runs.
RetryIdle ==
    /\ deadline_seconds = 0
    /\ backoff = 0
    /\ attempt = 0
    /\ clock = 0
    /\ wait = 0
    /\ ret = NoReturn
    /\ first_success = 0
    /\ seen = {}

NoPlanInput == [given |-> FALSE]
NoPlan == [created |-> FALSE]

\* build_day_plan while another specification runs.
PlanIdle ==
    /\ plan_in = NoPlanInput
    /\ windows = <<>>
    /\ schedule = <<>>
    /\ charged_windows = {}
    /\ sold_windows = {}
    /\ remaining_capacity = 0
    /\ pairs = <<>>
    /\ day_plan = NoPlan

NoFetch == [fetched |-> FALSE]
NoAdvice == [action |-> "none"]

\* The monitor loop while another specification runs.
MonitorIdle ==
    /\ cycle = 0
    /\ now_minute = 0
    /\ last_plan_hour = -1
    /\ fetched = NoFetch
    /\ advice = NoAdvice
    /\ ticks = <<>>

MonitorSideIdle == RetryIdle /\ PlanIdle /\ MonitorIdle

(***************************************************************************)
(* Inputs of the decision functions: what the clients can return           *)
(* (api/amber.py _parse_price, api/weather.py) and the clock.              *)
(***************************************************************************)
PriceInterval(channel, cents, spike_status, desc, tariff, interval_type) ==
    [ channel |-> channel, per_kwh_cents |-> cents,
      spike_status |-> spike_status, descriptor |-> desc, tariff |-> tariff,
      interval_type |-> interval_type ]

SpikeStatuses == {"none", "potential", "actual"}

\* Amber's descriptor and tariff follow the price: only a cheap interval is
\* veryLow, only a dear one is in the peak period.
CurrentGeneral ==
    { PriceInterval("general", x, sp, d, t, "CurrentInterval") :
        x \in {-2, 6}, sp \in SpikeStatuses,
        d \in {"veryLow", "neutral"}, t \in {"offPeak"} }
    \cup
    { PriceInterval("general", x, sp, d, t, "CurrentInterval") :
        x \in {30, 180}, sp \in SpikeStatuses,
        d \in {"neutral"}, t \in {"peak", "offPeak"} }

CurrentFeedIn ==
    { PriceInterval("feedIn", x, "none", "neutral", "none", "CurrentInterval") :
        x \in {-5, -30, 600} }
    \cup
    { PriceInterval("feedIn", -600, "actual", "neutral", "none",
                    "CurrentInterval") }

\* /prices/current: at most one interval per channel
CurrentPrices ==
    {<<>>} \cup { <<g>> : g \in CurrentGeneral }
           \cup { <<f>> : f \in CurrentFeedIn }
           \cup { <<g, f>> : g \in CurrentGeneral, f \in CurrentFeedIn }

Forecast(channel, cents) ==
    PriceInterval(channel, cents, "none", "neutral", "none", "ForecastInterval")

\* /prices?next=48, cut down to a few intervals
AllPrices ==
    { <<>>,
      << PriceInterval("general", 30, "none", "neutral", "none",
                       "ActualInterval"),
         Forecast("general", 10), Forecast("general", 50) >>,
      << Forecast("feedIn", -45) >>,
      << Forecast("general", 10), Forecast("feedIn", -45),
         Forecast("general", 50) >>,
      << Forecast("general", 11) >> }

SolarForecast(kw) == [generation_kw |-> kw]
SolarForecasts == { <<>>, <<SolarForecast(20), SolarForecast(0)>> }

SocLevels == {20, 30, 50, 100}
Hours == {3, 10, 17}

GridOk == [demand_mw |-> 8000, price_aud_mwh |-> 90, renewables_pct |-> 30]

(***************************************************************************)
(* SpecDecide: the two decision functions applied to every snapshot the    *)
(* collector can build.                                                    *)
(***************************************************************************)
InitDecide ==
    /\ pc = "input"
    /\ cfg \in Configs
    /\ now_hour \in Hours
    /\ weekday \in BOOLEAN
    /\ \E cur \in CurrentPrices, all \in AllPrices, sol \in SolarForecasts,
          soc \in SocLevels :
          snap = Merge([ current  |-> Returned(cur),
                         forecast |-> Returned(all),
                         battery  |-> Returned(BatteryAt(cfg, soc)),
                         solar    |-> Returned(sol),
                         grid     |-> Returned(GridOk) ],
                       cfg, now_hour, weekday)
    /\ decision = NoDecision
    /\ EngineIdle
    /\ MonitorSideIdle

StrategyStep ==
    /\ pc = "input"
    /\ decision' = StrategyDecide(snap, cfg)
    /\ pc' = "strategy"
    /\ UNCHANGED <<cfg, now_hour, weekday, snap>>
    /\ UNCHANGED engineVars
    /\ UNCHANGED monitorSideVars

FallbackStep ==
    /\ pc = "input"
    /\ decision' = FallbackDecide(snap.battery, now_hour)
    /\ pc' = "fallback"
    /\ UNCHANGED <<cfg, now_hour, weekday, snap>>
    /\ UNCHANGED engineVars
    /\ UNCHANGED monitorSideVars

NextDecide == StrategyStep \/ FallbackStep

SpecDecide == InitDecide /\ [][NextDecide]_vars

Decided == pc \in {"strategy", "fallback"}

\* C1: whenever the emitted Decision (of StrategyEngine.decide or of
\* FallbackStrategy.decide) charges the battery, from the grid or from solar,
\* the snapshot's battery has headroom_kwh > 0; the potential-spike rule
\* included.
C1_ChargeHasHeadroom ==
    (Decided /\ decision.action \in {"charge_grid", "charge_solar"})
        => headroom_kwh(snap.battery) > 0

\* A potential spike below the reserve: the engine charges from the grid.
C1_Witness ==
    /\ pc = "strategy"
    /\ decision.action = "charge_grid"
    /\ StartsWith(decision.reason, "Potential spike - charging to ")
    /\ spike(snap) = "potential"
    /\ snap.battery.soc_pct < cfg.spike_reserve_soc_pct

\* C2: whenever the emitted Decision discharges the battery, to the grid or
\* to the house, the snapshot's battery has usable_kwh > 0.
C2_DischargeHasUsable ==
    (Decided /\ decision.action \in {"discharge_grid", "discharge_house"})
        => usable_kwh(snap.battery) > 0

\* An actual spike with energy above the reserve: the engine powers the house.
C2_Witness ==
    /\ pc = "strategy"
    /\ decision.action = "discharge_house"
    /\ spike(snap) = "actual"
    /\ usable_kwh(snap.battery) > 0

\* C21: every Decision produced for a snapshot, by StrategyEngine.decide or
\* by FallbackStrategy.decide, has 0 <= power_kw <= max(max_charge_kw,
\* max_discharge_kw) of the snapshot's battery.
C21_PowerWithinRating ==
    Decided =>
        /\ 0 <= decision.power_kw
        /\ decision.power_kw
             <= Max(snap.battery.max_charge_kw, snap.battery.max_discharge_kw)

\* The evening load is above what the inverter delivers: the engine powers
\* the house at the inverter's rating.
C21_Witness ==
    /\ pc = "strategy"
    /\ decision.action = "discharge_house"
    /\ snap.predicted_load_kw > snap.battery.max_discharge_kw
    /\ decision.power_kw = snap.battery.max_discharge_kw
    /\ snap.battery.max_discharge_kw > snap.battery.max_charge_kw

\* Every fallback Decision has a confidence of at most 0.5 and a reason that
\* starts with "FALLBACK:".
FallbackMarked ==
    decision.confidence <= 50 /\ StartsWith(decision.reason, "FALLBACK:")

OverrideVpp == snap.vpp_event_active /\ usable_kwh(snap.battery) > 0

OverrideActualSpike ==
    /\ snap.current_import_price # NoPrice
    /\ snap.current_import_price.spike_status = "actual"
    /\ usable_kwh(snap.battery) > 0

OverridePotentialSpike ==
    /\ snap.current_import_price # NoPrice
    /\ snap.current_import_price.spike_status = "potential"
    /\ snap.battery.soc_pct < cfg.spike_reserve_soc_pct

OverrideNegativePrice ==
    /\ snap.current_import_price # NoPrice
    /\ snap.current_import_price.per_kwh_cents <= 0
    /\ headroom_kwh(snap.battery) > 0

DecisionIs(action, power, confidence) ==
    /\ decision.action = action
    /\ decision.power_kw = power
    /\ decision.confidence = confidence

\* C13: StrategyEngine.decide evaluates the overrides in the order VPP event,
\* actual import spike, potential spike below the reserve, negative import
\* price, and the first whose guard holds fixes the Decision; so with a VPP
\* event and usable energy the Decision is discharge_grid at max_discharge_kw
\* with confidence 0.95, whatever the spike status and the import price.
C13_OverridesInOrder ==
    pc = "strategy" =>
        /\ OverrideVpp =>
              DecisionIs("discharge_grid", snap.battery.max_discharge_kw, 95)
        /\ (~OverrideVpp /\ OverrideActualSpike) =>
              DecisionIs("discharge_house",
                         Min(snap.predicted_load_kw,
                             snap.battery.max_discharge_kw), 99)
        /\ (~OverrideVpp /\ ~OverrideActualSpike /\ OverridePotentialSpike) =>
              DecisionIs("charge_grid", snap.battery.max_charge_kw, 70)
        /\ (/\ ~OverrideVpp /\ ~OverrideActualSpike /\ ~OverridePotentialSpike
            /\ OverrideNegativePrice) =>
              DecisionIs("charge_grid", snap.battery.max_charge_kw, 99)

\* A VPP event during an actual spike with a negative import price.
C13_Witness ==
    /\ pc = "strategy"
    /\ OverrideVpp
    /\ OverrideActualSpike
    /\ OverrideNegativePrice
    /\ decision.action = "discharge_grid"

\* C14: when none of the four earlier overrides fires, export_cents > 500
\* and usable_kwh > 0, the Decision is discharge_grid at max_discharge_kw
\* with confidence 0.95, whatever the descriptor, the charge thresholds and
\* the export prices of the forecast.
C14_ExtremeExportSells ==
    ( /\ pc = "strategy"
      /\ snap.current_import_price # NoPrice
      /\ ~OverrideVpp /\ ~OverrideActualSpike /\ ~OverridePotentialSpike
      /\ ~OverrideNegativePrice
      /\ snap.current_export_price # NoPrice
      /\ Abs(snap.current_export_price.per_kwh_cents) > 500
      /\ usable_kwh(snap.battery) > 0 )
        => DecisionIs("discharge_grid", snap.battery.max_discharge_kw, 95)

\* None of the rules 1 to 6 of the cascade fires.
NoEarlierRule ==
    /\ ~OverrideVpp /\ ~OverrideActualSpike
    /\ ~OverridePotentialSpike /\ ~OverrideNegativePrice
    /\ ~LowPriceGuard(snap) /\ ~BelowThresholdGuard(snap, cfg)

\* Some feed-in forecast interval of the next three hours is above 1.3 times
\* the current export price.
HigherExportAhead ==
    LET f == SelectChannel(snap.price_forecast, "feedIn") IN
    \E i \in 1..Min(Len(f), 36) :
        10 * Abs(f[i].per_kwh_cents) > 13 * export_cents(snap)

\* C27: when no earlier rule fires, export_cents > sell_price_threshold and
\* usable_kwh > 0, the Decision is discharge_grid with confidence 0.85 if no
\* feed-in forecast interval of the next 3 hours exceeds 1.3 times the
\* current export price, and otherwise the battery holds: idle with power 0.
C27_HighExportSellsOrHolds ==
    ( /\ pc = "strategy"
      /\ NoEarlierRule
      /\ export_cents(snap) > cfg.sell_price_threshold_cents
      /\ usable_kwh(snap.battery) > 0 )
        => IF ~HigherExportAhead
           THEN decision.action = "discharge_grid" /\ decision.confidence = 85
           ELSE decision.action = "idle" /\ decision.power_kw = 0

\* C27 without its second half: with no higher export price ahead the
\* battery sells with confidence 0.85.
HighExportSells ==
    ( /\ pc = "strategy"
      /\ NoEarlierRule
      /\ export_cents(snap) > cfg.sell_price_threshold_cents
      /\ usable_kwh(snap.battery) > 0
      /\ ~HigherExportAhead )
        => decision.action = "discharge_grid" /\ decision.confidence = 85

\* margin = forecast peak - import_cents / efficiency - cycle cost, compared
\* with k cents; both sides multiplied by efficiency * 12 * capacity_kwh.
ScaledMargin ==
    LET b == snap.battery IN
    peak_price(snap) * b.round_trip_efficiency * 12 * b.capacity_kwh
      - import_cents(snap) * 100 * 12 * b.capacity_kwh
      - b.cycle_cost_cents * b.max_charge_kw * 10 * b.round_trip_efficiency
ScaledCents(k) ==
    k * snap.battery.round_trip_efficiency * 12 * snap.battery.capacity_kwh

LowPriceCase ==
    /\ pc = "strategy"
    /\ ~OverrideVpp /\ ~OverrideActualSpike
    /\ ~OverridePotentialSpike /\ ~OverrideNegativePrice
    /\ descriptor(snap) \in {"extremelyLow", "veryLow"}
    /\ headroom_kwh(snap.battery) > 0

\* C28: when no override fires, the descriptor is extremely_low or very_low,
\* headroom_kwh > 0 and the margin (forecast peak price minus
\* import_cents / efficiency minus cycle cost) is >= 5 c, the boundary
\* margin = 5 included, the Decision is charge_grid with confidence 0.8.
C28_LowPriceChargesFromMargin5 ==
    (LowPriceCase /\ ScaledMargin >= ScaledCents(5))
        => decision.action = "charge_grid" /\ decision.confidence = 80

\* C28 above the boundary: with a margin > 5 c the battery charges with
\* confidence 0.8.
LowPriceChargesAboveMargin5 ==
    (LowPriceCase /\ ScaledMargin > ScaledCents(5))
        => decision.action = "charge_grid" /\ decision.confidence = 80

(***************************************************************************)
(* SpecTotal: StrategyEngine.decide called on snapshots whose battery is    *)
(* any BatteryState, inside and outside the invariants of the type.        *)
(***************************************************************************)
\* BatteryState values: no capacity or 13.5 kWh, empty to full, an
\* efficiency of 0, 0.9 or 1, a reserve floor of 0 or 20 percent.
TotalBatteries ==
    { [ soc_pct               |-> IF cap = 0 THEN 50 ELSE (kwh * 100) \div cap,
        soc_kwh               |-> kwh,
        capacity_kwh          |-> cap,
        max_charge_kw         |-> 50,
        max_discharge_kw      |-> 50,
        round_trip_efficiency |-> eff,
        cycle_cost_cents      |-> 5,
        min_soc_pct           |-> floor ] :
        cap \in {0, 1350}, kwh \in {0, 675, 1350}, eff \in {0, 90, 100},
        floor \in {0, 20} }

\* The invariant of BatteryState: 0 <= soc_kwh <= capacity_kwh,
\* min_soc_pct in [0, 100), 0 < round_trip_efficiency <= 1.
BatteryInvariant(b) ==
    /\ 0 <= b.soc_kwh /\ b.soc_kwh <= b.capacity_kwh
    /\ 0 <= b.min_soc_pct /\ b.min_soc_pct < 100
    /\ 0 < b.round_trip_efficiency /\ b.round_trip_efficiency <= 100

InitTotal ==
    /\ pc = "call"
    /\ cfg = DefaultConfig
    /\ now_hour \in Hours
    /\ weekday = TRUE
    /\ \E cur \in CurrentPrices, all \in AllPrices, sol \in SolarForecasts,
          b \in TotalBatteries :
          snap = Merge([ current  |-> Returned(cur),
                         forecast |-> Returned(all),
                         battery  |-> Returned(b),
                         solar    |-> Returned(sol),
                         grid     |-> Returned(GridOk) ],
                       cfg, now_hour, weekday)
    /\ decision = NoDecision
    /\ EngineIdle
    /\ MonitorSideIdle

\* decide(snap) returns a Decision
TotalReturns ==
    /\ pc = "call"
    /\ ~decide_raises(snap, cfg)
    /\ decision' = StrategyDecide(snap, cfg)
    /\ pc' = "returned"
    /\ UNCHANGED <<cfg, now_hour, weekday, snap, engineVars, monitorSideVars>>

\* decide(snap) raises
TotalRaises ==
    /\ pc = "call"
    /\ decide_raises(snap, cfg)
    /\ pc' = "raised"
    /\ UNCHANGED <<decideVars, engineVars, monitorSideVars>>

NextTotal == TotalReturns \/ TotalRaises

SpecTotal == InitTotal /\ [][NextTotal]_vars

\* C23: the decision function is total: for every snapshot whose battery
\* satisfies the BatteryState invariants the call never raises and returns
\* exactly one Decision (never none), whose action is a BatteryAction.
C23_DecideTotal ==
    BatteryInvariant(snap.battery) =>
        /\ pc # "raised"
        /\ pc = "call" => ENABLED TotalReturns
        /\ pc = "returned" =>
              /\ decision # NoDecision
              /\ decision.action \in BatteryActions

\* A battery without capacity (and so without headroom or usable energy) in
\* the peak period: no rule divides, the engine idles.
C23_Witness ==
    /\ pc = "returned"
    /\ BatteryInvariant(snap.battery)
    /\ snap.battery.capacity_kwh = 0
    /\ snap.tariff_period = "peak"
    /\ decision.action = "idle"

\* Outside the invariants the call can raise: an efficiency of 0 at a very
\* low price.
RaisesOutsideInvariant ==
    /\ pc = "raised"
    /\ snap.battery.round_trip_efficiency = 0
    /\ descriptor(snap) = "veryLow"

(***************************************************************************)
(* SpecHealth: a HealthMonitor under any sequence of calls of its three    *)
(* recording methods. tick counts the calls made; it is the clock that     *)
(* record_success reads.                                                   *)
(***************************************************************************)
MaxCalls == 5

\* the names record_api_status is called with: the three of the initial
\* map and one that is not in it
ApiNames == {"amber", "weather", "aemo", "inverter"}

InitHealth ==
    /\ pc = "health"
    /\ cfg = DefaultConfig
    /\ now_hour = 0
    /\ weekday = TRUE
    /\ snap = NoSnap
    /\ decision = NoDecision
    /\ EngineIdle
    /\ MonitorSideIdle

healthRest ==
    <<pc, decideVars, shutdown, summaries, log, failed, signal_at, closed,
      amber_down_run, finished, monitorSideVars>>

HealthRecordSuccess ==
    /\ tick < MaxCalls
    /\ tick' = tick + 1
    /\ health' = record_success(health, tick')
    /\ UNCHANGED <<alerts, healthRest>>

HealthRecordFailure ==
    /\ tick < MaxCalls
    /\ tick' = tick + 1
    /\ health' = record_failure(health)
    /\ alerts' = alerts + (IF alert_raised(health') THEN 1 ELSE 0)
    /\ UNCHANGED healthRest

HealthRecordApiStatus ==
    /\ tick < MaxCalls
    /\ tick' = tick + 1
    /\ \E api_name \in ApiNames, healthy \in BOOLEAN :
          health' = record_api_status(health, api_name, healthy)
    /\ UNCHANGED <<alerts, healthRest>>

NextHealth ==
    \/ HealthRecordSuccess
    \/ HealthRecordFailure
    \/ HealthRecordApiStatus

SpecHealth == InitHealth /\ [][NextHealth]_vars

\* C17: after any sequence of record_success, record_failure and
\* record_api_status calls, HealthStatus is degraded exactly when at least
\* one entry of the per-source status map is down, and critical exactly when
\* consecutive_failures >= 3 or the retailer (amber) entry is down.
C17_HealthFlags ==
    /\ is_degraded(health) <=>
          (\E n \in DOMAIN health.api_status : health.api_status[n] = FALSE)
    /\ is_critical(health) <=>
          (health.consecutive_failures >= 3
             \/ health.api_status["amber"] = FALSE)

\* The retailer is down after a success has reset the run of failures, and
\* an entry added to the map is up.
C17_Witness ==
    /\ health.api_status["amber"] = FALSE
    /\ health.consecutive_failures = 0
    /\ health.total_failures >= 1
    /\ "inverter" \in DOMAIN health.api_status
    /\ is_critical(health)
    /\ is_degraded(health)

\* C18: the health monitor raises an alert on the failure that makes
\* consecutive_failures reach max_failures_before_alert (default 3); no
\* alert is raised while the run of consecutive failures is below the
\* threshold, and none by a call that records no failure.
C18_AlertOnCrossing ==
    [][ IF health'.total_failures = health.total_failures + 1
        THEN /\ health'.consecutive_failures < 3 => alerts' = alerts
             /\ health'.consecutive_failures = 3 => alerts' = alerts + 1
        ELSE alerts' = alerts ]_vars

\* Three failures in a row after an earlier, shorter run: one alert.
C18_Witness ==
    /\ health.consecutive_failures = 3
    /\ health.total_failures = 4
    /\ alerts = 1

(***************************************************************************)
(* core/engine.py: run()                                                   *)
(***************************************************************************)
MaxTicks == 2

\* What the clients hand to the gather in one tick.
EngineCurrent ==
    { Raised,
      Returned(<< PriceInterval("general", 30, "none", "neutral", "offPeak",
                                "CurrentInterval"),
                  PriceInterval("feedIn", -5, "none", "neutral", "none",
                                "CurrentInterval") >>),
      Returned(<< PriceInterval("general", -2, "none", "neutral", "offPeak",
                                "CurrentInterval") >>) }

EngineForecast ==
    { Raised, Returned(<< Forecast("general", 10), Forecast("feedIn", -45) >>) }

\* AmberClient.get_battery_state: the default battery, without any request
EngineBattery == { Raised, Returned(_default_battery(DefaultConfig)) }

EngineSolar == { Raised, Returned(<< SolarForecast(20) >>) }

\* AEMOClient.get_grid_state catches every exception of its request and
\* returns the zero-filled GridState instead: its task never raises.
get_grid_state(request_ok) ==
    IF request_ok THEN Returned(GridOk) ELSE Returned(ZeroGridState)

\* The sources of a gather whose request failed.
FailedSources(results, grid_ok) ==
    { src \in Sources \ {"grid"} : results[src].raised }
        \cup (IF grid_ok THEN {} ELSE {"grid"})

\* DecisionLog.record(decision): appends the decision to the log.
LogEntry(d, t) == [tick |-> t, decision |-> d]
log_record(l, d, t) == Append(l, LogEntry(d, t))

\* Where control goes when a statement of the tick body raises: the
\* "except Exception" clause of the loop body.
OnException_Propagates == "closing"
OnException == "except"

\* The loop is suspended in an await here; the signal handler runs only then
\* (the wait_for that timed out still awaits the cancellation of its inner
\* task before the loop tests the event again).
AwaitPoints == {"loop", "collect", "wait"}

TickPcs == {"collect", "decide", "log_record", "except"}

EngineHours == {10, 17}

InitEngine ==
    /\ pc = "loop"
    /\ cfg = DefaultConfig
    /\ now_hour \in EngineHours
    /\ weekday = TRUE
    /\ snap = NoSnap
    /\ decision = NoDecision
    /\ EngineIdle
    /\ MonitorSideIdle

\* loop.add_signal_handler(sig, handle_signal): shutdown.set()
handle_signal ==
    /\ pc \in AwaitPoints
    /\ ~shutdown
    /\ shutdown' = TRUE
    /\ signal_at' = [pc |-> pc, tick |-> tick]
    /\ UNCHANGED <<pc, decideVars, tick, health, alerts, summaries, log,
                   failed, closed, amber_down_run, finished>>
    /\ UNCHANGED monitorSideVars

\* while not shutdown.is_set(): the test fails
LoopExit ==
    /\ pc = "loop"
    /\ shutdown
    /\ pc' = "closing"
    /\ UNCHANGED <<decideVars, engineVars>>
    /\ UNCHANGED monitorSideVars

\* while not shutdown.is_set(): the test passes, collect() is awaited
LoopEnter ==
    /\ pc = "loop"
    /\ ~shutdown
    /\ tick < MaxTicks
    /\ tick' = tick + 1
    /\ pc' = "collect"
    /\ snap' = NoSnap
    /\ decision' = NoDecision
    /\ failed' = {}
    /\ UNCHANGED <<cfg, now_hour, weekday, shutdown, health, alerts,
                   summaries, log, signal_at, closed, amber_down_run, finished>>
    /\ UNCHANGED monitorSideVars

\* health.record_api_status("amber", snap.current_import_price is not None)
\* health.record_api_status("weather", len(snap.solar_forecast) > 0)
TrackApiHealth(h, s) ==
    record_api_status(
        record_api_status(h, "amber", s.current_import_price # NoPrice),
        "weather", Len(s.solar_forecast) > 0)

\* snap = await collector.collect() returns; the API health is tracked
CollectReturns ==
    /\ pc = "collect"
    /\ \E cur \in EngineCurrent, all \in EngineForecast, bat \in EngineBattery,
          sol \in EngineSolar, grid_ok \in BOOLEAN :
          LET results == [ current |-> cur, forecast |-> all, battery |-> bat,
                           solar |-> sol, grid |-> get_grid_state(grid_ok) ]
          IN  /\ snap' = Merge(results, cfg, now_hour, weekday)
              /\ failed' = FailedSources(results, grid_ok)
    /\ health' = TrackApiHealth(health, snap')
    /\ amber_down_run' = IF snap'.current_import_price = NoPrice
                         THEN amber_down_run + 1 ELSE 0
    /\ pc' = "decide"
    /\ UNCHANGED <<cfg, now_hour, weekday, decision, shutdown, tick,
                   alerts, summaries, log, signal_at, closed, finished>>
    /\ UNCHANGED monitorSideVars

\* collect() raises
CollectRaises ==
    /\ pc = "collect"
    /\ pc' = OnException
    /\ UNCHANGED <<decideVars, engineVars>>
    /\ UNCHANGED monitorSideVars

\* fallback.decide(snap.battery) if Amber data is missing, else
\* strategy.decide(snap)
EngineDecide(s, c, hour) ==
    IF s.current_import_price = NoPrice
    THEN FallbackDecide(s.battery, hour)
    ELSE StrategyDecide(s, c)

\* the decision function returns; health.record_success()
DecideReturns ==
    /\ pc = "decide"
    /\ decision' = EngineDecide(snap, cfg, now_hour)
    /\ health' = record_success(health, tick)
    /\ pc' = "log_record"
    /\ UNCHANGED <<cfg, now_hour, weekday, snap, shutdown, tick, alerts,
                   summaries, log, failed, signal_at, closed, amber_down_run, finished>>
    /\ UNCHANGED monitorSideVars

\* the decision function raises
DecideRaises ==
    /\ pc = "decide"
    /\ pc' = OnException
    /\ UNCHANGED <<decideVars, engineVars>>
    /\ UNCHANGED monitorSideVars

\* if health.status.total_cycles % 12 == 0: logger.info("Health: ...")
HealthSummary(h, n) == n + (IF h.total_cycles % 12 = 0 THEN 1 ELSE 0)

\* log.record(decision) returns; logger.info(...); the hourly summary
LogRecordReturns ==
    /\ pc = "log_record"
    /\ log' = log_record(log, decision, tick)
    /\ summaries' = HealthSummary(health, summaries)
    /\ pc' = "wait"
    /\ UNCHANGED <<decideVars, shutdown, tick, health, alerts, failed,
                   signal_at, closed, amber_down_run, finished>>
    /\ UNCHANGED monitorSideVars

\* log.record(decision) raises (the sink cannot be written)
LogRecordRaises ==
    /\ pc = "log_record"
    /\ pc' = OnException
    /\ UNCHANGED <<decideVars, engineVars>>
    /\ UNCHANGED monitorSideVars

\* except Exception as e: health.record_failure(str(e)); then the inner
\* try: fallback.decide(default battery); log.record(decision)
\* except Exception: pass; then the hourly summary
ExceptHandler ==
    /\ pc = "except"
    /\ health' = record_failure(health)
    /\ alerts' = alerts + (IF alert_raised(health') THEN 1 ELSE 0)
    /\ decision' = FallbackDecide(_default_battery(cfg), now_hour)
    /\ \/ log' = log_record(log, decision', tick)
       \/ log' = log
    /\ summaries' = HealthSummary(health', summaries)
    /\ pc' = "wait"
    /\ UNCHANGED <<cfg, now_hour, weekday, snap, shutdown, tick, failed,
                   signal_at, closed, amber_down_run, finished>>
    /\ UNCHANGED monitorSideVars

\* await asyncio.wait_for(shutdown.wait(), timeout=...) returns: break
WaitShutdown ==
    /\ pc = "wait"
    /\ shutdown
    /\ pc' = "closing"
    /\ UNCHANGED <<decideVars, engineVars>>
    /\ UNCHANGED monitorSideVars

\* ... raises asyncio.TimeoutError: pass
WaitTimeout ==
    /\ pc = "wait"
    /\ ~shutdown
    /\ pc' = "loop"
    /\ UNCHANGED <<decideVars, engineVars>>
    /\ UNCHANGED monitorSideVars

\* finally: await collector.close()
Close ==
    /\ pc = "closing"
    /\ closed' = TRUE
    /\ pc' = "done"
    /\ UNCHANGED <<decideVars, shutdown, tick, health, alerts, summaries, log,
                   failed, signal_at, amber_down_run, finished>>
    /\ UNCHANGED monitorSideVars

NextEngine ==
    \/ handle_signal
    \/ LoopExit
    \/ LoopEnter
    \/ CollectReturns
    \/ CollectRaises
    \/ DecideReturns
    \/ DecideRaises
    \/ LogRecordReturns
    \/ LogRecordRaises
    \/ ExceptHandler
    \/ WaitShutdown
    \/ WaitTimeout
    \/ Close

SpecEngine == InitEngine /\ [][NextEngine]_vars

\* The tick in progress, or just completed, appended a Decision to the log.
LoggedThisTick == \E i \in 1..Len(log) : log[i].tick = tick

\* C3: every tick emits a Decision and appends it to the decision log before
\* the loop sleeps, also when the tick body raised (then the fallback
\* Decision of the default battery is logged).
C3_EveryTickLogs == pc = "wait" => LoggedThisTick

\* C4: no failure of a data source and no exception raised in the tick body
\* ends the loop: a tick in progress goes on to its wait, the wait that times
\* out goes on to the next test of the loop, and the loop is left only with
\* the shutdown event set.
C4_LoopSurvives ==
    /\ [](pc \in TickPcs => ENABLED NextEngine)
    /\ [][ /\ pc \in TickPcs => pc' \in TickPcs \cup {"wait"}
           /\ (pc = "wait" /\ ~shutdown) => pc' \in {"wait", "loop"}
           /\ (pc = "loop" /\ ~shutdown) => pc' \in {"loop", "collect"}
           /\ pc' \in {"closing", "done"} => shutdown' ]_vars

\* The second tick reaches its wait with all five sources failed, after a
\* tick body has raised, and no shutdown is pending.
C4_Witness ==
    /\ pc = "wait"
    /\ tick = 2
    /\ failed = Sources
    /\ health.total_failures >= 1
    /\ ~shutdown

\* The entry of the health map that stands for a source.
HealthKey(src) ==
    CASE src = "current"  -> "amber"
      [] src = "forecast" -> "amber"
      [] src = "solar"    -> "weather"
      [] src = "grid"     -> "aemo"

\* C6: after a tick in which one of the sources retailer current prices,
\* retailer forecast, weather or wholesale market failed, the health map
\* marks that source as down by the end of the tick.
C6_FailedSourceMarkedDown ==
    pc = "wait" =>
        \A src \in failed \cap {"current", "forecast", "solar", "grid"} :
            ~health.api_status[HealthKey(src)]

\* Shutdown without the part on the decision: once the event is set no
\* further tick starts, only the tick that was in progress runs on, the wait
\* returns at once, and the loop ends with the collector closed.
ShutdownIsGraceful ==
    shutdown =>
        /\ tick = signal_at.tick
        /\ pc \in TickPcs => signal_at.pc = "collect"
        /\ pc = "wait" => (ENABLED WaitShutdown /\ ~ENABLED WaitTimeout)
        /\ pc = "done" => closed

\* C7: once the shutdown event is set, the tick in progress runs to
\* completion and its decision is recorded, no further tick is started, a
\* sleeping loop wakes without waiting for the tick interval, and the loop
\* then exits and closes the collector's clients.
C7_GracefulShutdown ==
    /\ ShutdownIsGraceful
    /\ (shutdown /\ signal_at.pc = "collect"
          /\ pc \in {"wait", "closing", "done"}) => LoggedThisTick

\* _alert is called by record_failure only: a tick raised for every alert.
AlertsOnlyOnFailures == alerts <= health.total_failures

\* C19: when the retailer source stays down over consecutive ticks (the
\* snapshot has no current import price tick after tick), the health monitor
\* raises an alert, and the loop keeps running.
C19_RetailerDownAlerts ==
    (pc = "wait" /\ amber_down_run >= 2) => alerts >= 1

\* C29: every iteration of the loop increases health.total_cycles by
\* exactly one, whether the tick succeeds or fails at any of its steps, so
\* between ticks total_failures <= total_cycles = the number of ticks run,
\* and the health summary has been logged once per tick whose ordinal is a
\* multiple of 12.
C29_OneCyclePerTick ==
    pc \in {"loop", "wait", "closing", "done"} =>
        /\ health.total_cycles = tick
        /\ health.total_failures <= health.total_cycles
        /\ summaries = tick \div 12

\* What the counters do satisfy: a tick counts once or twice.
CyclesWithinTwicePerTick ==
    pc \in {"loop", "wait", "closing", "done"} =>
        /\ tick <= health.total_cycles
        /\ health.total_cycles <= 2 * tick
        /\ health.total_failures <= health.total_cycles

(***************************************************************************)
(* SpecCollect: data/collector.py DataCollector.collect(), the gather of   *)
(* the five source requests taken one task at a time.                      *)
(***************************************************************************)
\* The awaitables in the order they are passed to asyncio.gather.
GatherArgs == <<"current", "forecast", "battery", "solar", "grid">>

\* /prices?next=48: past, current and future intervals in one list.
CollectForecast ==
    { Raised,
      Returned(<< PriceInterval("general", 28, "none", "neutral", "offPeak",
                                "ActualInterval"),
                  PriceInterval("general", 30, "none", "neutral", "offPeak",
                                "CurrentInterval"),
                  Forecast("general", 10), Forecast("feedIn", -45) >>) }

\* How the task of a source can end: whether its request succeeded, and what
\* the gather is handed for it.
TaskOutcomes(src) ==
    IF src = "grid"
    THEN { [ok |-> b, result |-> get_grid_state(b)] : b \in BOOLEAN }
    ELSE LET rs == IF src = "current" THEN EngineCurrent
                   ELSE IF src = "forecast" THEN CollectForecast
                   ELSE IF src = "battery" THEN EngineBattery
                   ELSE EngineSolar
         IN  { [ok |-> ~r.raised, result |-> r] : r \in rs }

FinishedSources(fin) == { fin[i].src : i \in 1..Len(fin) }

\* A task that is not done has no result; the gather never reads it.
Pending == [raised |-> TRUE, pending |-> TRUE]

ResultOf(fin, src) ==
    LET idx == { i \in 1..Len(fin) : fin[i].src = src } IN
    IF idx = {} THEN Pending ELSE fin[CHOOSE i \in idx : TRUE].result

\* asyncio.wait(..., return_when=FIRST_COMPLETED): done with the first task.
GatherDone_FirstCompleted(fin) == FinishedSources(fin) # {}

\* asyncio.gather(..., return_exceptions=True) is done when every awaitable
\* has returned or raised.
GatherDone(fin) == FinishedSources(fin) = Sources

\* The list the gather returns: one entry per awaitable, in argument order
\* whatever the order of completion.
gather(fin) == [ i \in 1..Len(GatherArgs) |-> ResultOf(fin, GatherArgs[i]) ]

\* current_prices, all_prices, battery, solar, grid = results
Unpack(results) ==
    [ current |-> results[1], forecast |-> results[2], battery |-> results[3],
      solar |-> results[4], grid |-> results[5] ]

InitCollect ==
    /\ pc = "call"
    /\ cfg = DefaultConfig
    /\ now_hour \in EngineHours
    /\ weekday = TRUE
    /\ snap = NoSnap
    /\ decision = NoDecision
    /\ EngineIdle
    /\ MonitorSideIdle

collectRest ==
    <<cfg, now_hour, weekday, decision, shutdown, tick, health, alerts,
      summaries, log, signal_at, closed, amber_down_run, monitorSideVars>>

\* The five coroutines are created and handed to the gather, which wraps
\* each in a task; collect() is suspended in the await.
CollectLaunch ==
    /\ pc = "call"
    /\ pc' = "gather"
    /\ finished' = <<>>
    /\ UNCHANGED <<snap, failed, collectRest>>

\* One of the tasks still running ends: its request succeeded or failed.
TaskCompletes ==
    /\ pc = "gather"
    /\ \E src \in Sources \ FinishedSources(finished) :
          \E o \in TaskOutcomes(src) :
              finished' = Append(finished, [src |-> src] @@ o)
    /\ UNCHANGED <<pc, snap, failed, collectRest>>

\* The gather is done: collect() resumes, replaces the exceptions by the
\* defaults and returns the Snapshot.
GatherReturns ==
    /\ pc = "gather"
    /\ GatherDone(finished)
    /\ snap' = Merge(Unpack(gather(finished)), cfg, now_hour, weekday)
    /\ failed' = { finished[i].src : i \in { j \in 1..Len(finished) :
                                               ~finished[j].ok } }
    /\ pc' = "returned"
    /\ UNCHANGED <<finished, collectRest>>

NextCollect ==
    \/ CollectLaunch
    \/ TaskCompletes
    \/ GatherReturns

SpecCollect == InitCollect /\ [][NextCollect]_vars

\* What the Snapshot holds of one source.
SnapshotPart(s, src) ==
    IF src = "current" THEN <<s.current_import_price, s.current_export_price>>
    ELSE IF src = "forecast" THEN <<s.price_forecast, s.price_history>>
    ELSE IF src = "battery" THEN <<s.battery>>
    ELSE IF src = "solar" THEN <<s.solar_forecast>>
    ELSE <<s.grid_state>>

\* What the Snapshot must hold of a source whose request succeeded with
\* value v: the value itself, the price lists cut by channel or by type.
KeptPart(src, v) ==
    IF src = "current"
    THEN <<FirstOfChannel(v, "general"), FirstOfChannel(v, "feedIn")>>
    ELSE IF src = "forecast"
    THEN << SelectSeq(v, LAMBDA p : p.interval_type = "ForecastInterval"),
            SelectSeq(v, LAMBDA p : p.interval_type = "ActualInterval") >>
    ELSE <<v>>

\* What the Snapshot must hold of a source whose request failed.
DefaultPart(src) ==
    IF src = "current" THEN <<NoPrice, NoPrice>>
    ELSE IF src = "forecast" THEN << <<>>, <<>> >>
    ELSE IF src = "battery" THEN <<_default_battery(cfg)>>
    ELSE IF src = "solar" THEN << <<>> >>
    ELSE <<ZeroGridState>>

\* C20: collect launches its five requests together and returns a Snapshot
\* only after all five tasks have finished, whatever subset of them failed
\* and in whatever order they completed; once all five are done the return
\* is never blocked; in the Snapshot every failed source is replaced by its
\* typed default and every successful source keeps the value it returned.
C20_CollectJoinsAll ==
    /\ snap # NoSnap => FinishedSources(finished) = Sources
    /\ (pc = "gather" /\ Len(finished) = Len(GatherArgs))
           => ENABLED GatherReturns
    /\ pc = "returned" =>
          /\ snap # NoSnap
          /\ \A i \in 1..Len(finished) :
                LET t == finished[i] IN
                SnapshotPart(snap, t.src) =
                    IF t.ok THEN KeptPart(t.src, t.result.value)
                    ELSE DefaultPart(t.src)

\* The grid task ended first and the current-price task last; the forecast
\* and the grid requests failed, the three others succeeded.
C20_Witness ==
    /\ pc = "returned"
    /\ Len(finished) = 5
    /\ finished[1].src = "grid"
    /\ finished[5].src = "current"
    /\ failed = {"forecast", "grid"}
    /\ snap.price_forecast = <<>>
    /\ snap.grid_state = ZeroGridState
    /\ snap.current_import_price # NoPrice
    /\ snap.solar_forecast # <<>>

\* All five tasks are in flight at once.
AllInFlight == pc = "gather" /\ finished = <<>>

(***************************************************************************)
(* monitor.py: http_retry(http, url, deadline_seconds, backoff)            *)
(* Time is counted in whole seconds.                                       *)
(***************************************************************************)
DefaultDeadline == 270
ShortDeadline == 30
DefaultBackoff == 5
MaxWait == 30

\* The longest a single request is taken to last, in seconds.
MaxGetSeconds == 1
GetDurations == 0..MaxGetSeconds

\* The outcomes of one attempt: resp.raise_for_status() and resp.json() both
\* pass; the status is 429; raise_for_status() raises; http.get raises;
\* resp.json() raises.
FailureKinds == {"status_error", "transport_error", "decode_error"}
Outcomes == {"ok", "rate_limited"} \cup FailureKinds

EmptyList == [kind |-> "list", attempt |-> 0]
\* resp.json() of the response of the given attempt
Json(n) == [kind |-> "json", attempt |-> n]

\* except Exception as e: every exception of an attempt is caught.
Caught_OnlyHttpErrors(kind) == kind \in {"status_error", "transport_error"}
Caught(kind) == kind \in FailureKinds

\* wait = min(backoff * attempt, 30)
RateLimitWait(b, n) == Min(b * n, MaxWait)
\* wait = min(backoff * attempt, 30, remaining)
FailureWait(b, n, remaining) == Min(Min(b * n, MaxWait), remaining)

InitRetry ==
    /\ pc = "top"
    /\ deadline_seconds \in {ShortDeadline, DefaultDeadline}
    /\ backoff = DefaultBackoff
    /\ attempt = 0
    /\ clock = 0
    /\ wait = 0
    /\ ret = NoReturn
    /\ first_success = 0
    /\ seen = {}
    /\ cfg = DefaultConfig
    /\ now_hour = 0
    /\ weekday = TRUE
    /\ snap = NoSnap
    /\ decision = NoDecision
    /\ EngineIdle
    /\ PlanIdle
    /\ MonitorIdle

\* attempt += 1; elapsed = ...; if elapsed > deadline_seconds: return []
LoopTop ==
    /\ pc = "top"
    /\ attempt' = attempt + 1
    /\ IF clock > deadline_seconds
       THEN ret' = EmptyList /\ pc' = "returned"
       ELSE ret' = ret /\ pc' = "get"
    /\ UNCHANGED <<deadline_seconds, backoff, clock, wait, first_success, seen>>
    /\ UNCHANGED <<decideVars, engineVars, planVars, monVars>>

\* the request succeeds and its body decodes: return resp.json()
GetSucceeds ==
    /\ pc = "get"
    /\ \E d \in GetDurations : clock' = clock + d
    /\ ret' = Json(attempt)
    /\ first_success' = attempt
    /\ seen' = seen \cup {"ok"}
    /\ pc' = "returned"
    /\ UNCHANGED <<deadline_seconds, backoff, attempt, wait>>
    /\ UNCHANGED <<decideVars, engineVars, planVars, monVars>>

\* resp.status_code == 429
GetRateLimited ==
    /\ pc = "get"
    /\ \E d \in GetDurations : clock' = clock + d
    /\ wait' = RateLimitWait(backoff, attempt)
    /\ seen' = seen \cup {"rate_limited"}
    /\ pc' = "sleep"
    /\ UNCHANGED <<deadline_seconds, backoff, attempt, ret, first_success>>
    /\ UNCHANGED <<decideVars, engineVars, planVars, monVars>>

\* the attempt raises; the handler returns [] or computes the wait
GetFails ==
    /\ pc = "get"
    /\ \E kind \in FailureKinds, d \in GetDurations :
          /\ clock' = clock + d
          /\ seen' = seen \cup {kind}
          /\ IF ~Caught(kind)
             THEN pc' = "raised" /\ UNCHANGED <<wait, ret>>
             ELSE LET remaining == deadline_seconds - clock'
                  IN  IF remaining <= 0
                      THEN /\ ret' = EmptyList
                           /\ pc' = "returned"
                           /\ wait' = wait
                      ELSE /\ wait' = FailureWait(backoff, attempt, remaining)
                           /\ pc' = "sleep"
                           /\ ret' = ret
    /\ UNCHANGED <<deadline_seconds, backoff, attempt, first_success>>
    /\ UNCHANGED <<decideVars, engineVars, planVars, monVars>>

\* await asyncio.sleep(wait), then the next iteration
Sleep ==
    /\ pc = "sleep"
    /\ clock' = clock + wait
    /\ pc' = "top"
    /\ UNCHANGED <<deadline_seconds, backoff, attempt, wait, ret,
                   first_success, seen>>
    /\ UNCHANGED <<decideVars, engineVars, planVars, monVars>>

NextRetry ==
    \/ LoopTop
    \/ GetSucceeds
    \/ GetRateLimited
    \/ GetFails
    \/ Sleep

SpecRetry == InitRetry /\ [][NextRetry]_vars

\* The event loop runs the coroutine whenever it can continue.
SpecRetryFair == SpecRetry /\ WF_vars(NextRetry)

\* What http_retry hands back: the body of the first attempt that succeeded,
\* or the empty list with the deadline used up.
ReturnsAsSpecified ==
    IF first_success # 0
    THEN ret = Json(first_success)
    ELSE ret = EmptyList /\ clock >= deadline_seconds

\* C8: http_retry never raises to its caller and always terminates: whatever
\* the outcomes of the attempts (success, 429, non-2xx, transport exception,
\* undecodable body), it returns the decoded response of the first successful
\* attempt, or the empty list once the deadline is exhausted.
C8_RetryTotal ==
    /\ [](pc # "raised")
    /\ [](pc = "returned" => ReturnsAsSpecified)
    /\ <>(pc = "returned")

\* A success returned after attempts of every failing kind.
C8_Witness ==
    /\ pc = "returned"
    /\ ret = Json(attempt)
    /\ seen = Outcomes

\* C9: after every 429 response and after every failed attempt the wait before
\* the next attempt is min(backoff * attempt, 30 s, time remaining to the
\* deadline), so that no backoff sleep ends after the deadline.
C9_WaitCappedByRemaining ==
    pc = "sleep" =>
        /\ wait = FailureWait(backoff, attempt, deadline_seconds - clock)
        /\ clock + wait <= deadline_seconds

(***************************************************************************)
(* strategy/planner.py                                                     *)
(* A price is an exact fraction of cents, power is in kW/100, energy in    *)
(* kWh/100. A time "HH:MM" is the number HHMM: two zero-padded fields      *)
(* compare as strings exactly as these numbers compare.                    *)
(* ScheduledAction.expected_value and the summary's total are left out.    *)
(***************************************************************************)
RECURSIVE Gcd(_, _)
Gcd(a, b) == IF b = 0 THEN a ELSE Gcd(b, a % b)

\* The fraction n/d (d > 0) in lowest terms
Frac(n, d) ==
    LET g == Gcd(Abs(n), d)
    IN  [num |-> n \div g, den |-> d \div g]

FracGt(a, b) == a.num * b.den > b.num * a.den
FracAdd(a, b) == Frac(a.num * b.den + b.num * a.den, a.den * b.den)
FracSub(a, b) == Frac(a.num * b.den - b.num * a.den, a.den * b.den)
FracNeg(a) == Frac(-a.num, a.den)
FracDiv(a, b) == Frac(a.num * b.den, a.den * b.num)

\* One element of Amber's /prices response, as the monitor hands it on.
RawInterval(channelType, type, day, hour, minute, perKwh, period, status) ==
    [ channelType |-> channelType, type |-> type, day |-> day, hour |-> hour,
      minute |-> minute, perKwh |-> perKwh, period |-> period,
      spikeStatus |-> status ]

\* f"{h:02d}:{m:02d}"
TimeKey(h, m) == h * 100 + m

\* slot = f"{h:02d}:{(m // 30) * 30:02d}": the date of the interval is dropped
SlotOf(p) == TimeKey(p.hour, (p.minute \div 30) * 30)

\* p.get("tariffInformation", {}).get("period", "offPeak")
PeriodOf(p) == IF p.period = "none" THEN "offPeak" ELSE p.period

RECURSIVE SortedKeys(_)
\* sorted(keys)
SortedKeys(S) ==
    IF S = {} THEN <<>>
    ELSE LET m == CHOOSE x \in S : \A y \in S : x <= y
         IN  <<m>> \o SortedKeys(S \ {m})

\* the ForecastIntervals of a list that fall in a slot, in the list's order
InSlot(intervals, slot) ==
    SelectSeq(intervals,
              LAMBDA p : p.type = "ForecastInterval" /\ SlotOf(p) = slot)

PerKwh(intervals) == [i \in 1..Len(intervals) |-> intervals[i].perKwh]
AbsPerKwh(intervals) == [i \in 1..Len(intervals) |-> Abs(intervals[i].perKwh)]

_build_windows(general, feedin) ==
    LET keys == SortedKeys({ SlotOf(general[i]) :
                    i \in { j \in 1..Len(general) :
                              general[j].type = "ForecastInterval" } })
        Window(i) ==
            LET slot  == keys[i]
                h     == slot \div 100
                end_m == (slot % 100) + 30
                g     == InSlot(general, slot)
                f     == InSlot(feedin, slot)
            IN  [ key |-> slot,
                  time_idx |-> i - 1,
                  hour |-> h,
                  start |-> slot,
                  end |-> TimeKey(h + (end_m \div 60), end_m % 60),
                  import_cents |-> Frac(SeqSum(PerKwh(g)), Len(g)),
                  export_cents |-> IF f = <<>> THEN Frac(0, 1)
                                   ELSE Frac(SeqSum(AbsPerKwh(f)), Len(f)),
                  tariff |-> PeriodOf(g[1]),
                  spike_risk |-> \E j \in 1..Len(g) : g[j].spikeStatus # "none" ]
    IN  [ i \in 1..Len(keys) |-> Window(i) ]

\* round(x, 0) of the fraction n/d >= 0, ties to the even neighbour
RoundHalfEven(n, d) ==
    LET q == n \div d
        r == n % d
    IN  IF 2 * r < d THEN q
        ELSE IF 2 * r > d THEN q + 1
        ELSE IF q % 2 = 0 THEN q ELSE q + 1

\* round(irr * 20 / 1000 * 0.15, 2), in kW/100
SolarKw(irr) == RoundHalfEven(irr * 3, 10)

\* The weather dict: hour of each "time" entry, and "direct_radiation".
NoWeather == [time |-> <<>>, direct_radiation |-> <<>>]

_solar_for_hour(solar_forecast, hour) ==
    LET hits == { i \in 1..Len(solar_forecast.time) :
                    solar_forecast.time[i] = hour }
    IN  IF hits = {} THEN 0
        ELSE LET i == CHOOSE x \in hits : \A y \in hits : x <= y
                 irr == IF i <= Len(solar_forecast.direct_radiation)
                        THEN solar_forecast.direct_radiation[i] ELSE 0
             IN  SolarKw(irr)

NoProfile == [learned |-> FALSE]
DefaultLoadKw == 30

\* Step 2: solar and load of each window
OverlayWindow(w, solar_forecast, profile, is_weekday) ==
    LET solar == _solar_for_hour(solar_forecast, w.hour)
        load  == IF profile = NoProfile THEN DefaultLoadKw
                 ELSE IF is_weekday
                      THEN profile.hours[w.hour].weekday_import_kw
                      ELSE profile.hours[w.hour].weekend_import_kw
        export == IF profile = NoProfile THEN 0
                  ELSE IF is_weekday
                       THEN profile.hours[w.hour].weekday_export_kw
                       ELSE profile.hours[w.hour].weekend_export_kw
    IN  w @@ [ solar_kw |-> solar, load_kw |-> load,
               expected_export_kw |-> export, net_kw |-> load - solar ]

Overlay(ws, solar_forecast, profile, is_weekday) ==
    [ i \in 1..Len(ws) |->
        OverlayWindow(ws[i], solar_forecast, profile, is_weekday) ]

\* planner_config of monitor.py run()
planner_config(c) ==
    [ battery_capacity_kwh |-> c.battery_capacity_kwh,
      round_trip_efficiency |-> c.battery_round_trip_efficiency,
      cycle_cost_cents |-> c.battery_cycle_cost_cents,
      max_charge_kw |-> c.battery_max_charge_kw,
      max_discharge_kw |-> c.battery_max_discharge_kw,
      min_soc_pct |-> c.battery_min_soc_pct ]

\* usable_kwh = battery_kwh * (1 - min_soc_pct / 100)
PlanUsableKwh(pcfg) ==
    (pcfg.battery_capacity_kwh * (100 - pcfg.min_soc_pct)) \div 100

TARIFF_CHARGE_PENALTY(t) ==
    CASE t = "shoulder" -> 3
      [] t = "peak" -> 10
      [] OTHER -> 0

\* buy_cost = import_cents / efficiency + cycle_cost, with
\* cycle_cost = cycle_cost_cents / battery_kwh
BuyCost(w, pcfg) ==
    FracAdd(FracDiv(w.import_cents, Frac(pcfg.round_trip_efficiency, 100)),
            Frac(pcfg.cycle_cost_cents * 100, pcfg.battery_capacity_kwh))

\* the sort key of a charge candidate: buy_cost plus the tariff penalty
ChargeKey(w, pcfg) ==
    FracAdd(BuyCost(w, pcfg), Frac(TARIFF_CHARGE_PENALTY(w.tariff), 1))

RECURSIVE SortedInsert(_, _)
\* x goes behind every element whose key is not greater than its own
SortedInsert(sorted, x) ==
    IF sorted = <<>> THEN <<x>>
    ELSE IF FracGt(Head(sorted).k, x.k) THEN <<x>> \o sorted
    ELSE <<Head(sorted)>> \o SortedInsert(Tail(sorted), x)

RECURSIVE SortKeyed(_)
SortKeyed(s) ==
    IF s = <<>> THEN <<>>
    ELSE SortedInsert(SortKeyed(SubSeq(s, 1, Len(s) - 1)), s[Len(s)])

\* list.sort(key=...): ascending by the key given for each element, equal
\* keys stay in their order
StableSort(s, keys) ==
    LET keyed  == [ i \in 1..Len(s) |-> [k |-> keys[i], v |-> s[i]] ]
        sorted == SortKeyed(keyed)
    IN  [ i \in 1..Len(s) |-> sorted[i].v ]

\* Step 3
charge_candidates(ws, pcfg) ==
    LET c == SelectSeq(ws, LAMBDA w : w.import_cents.num > 0)
    IN  StableSort(c, [ i \in 1..Len(c) |-> ChargeKey(c[i], pcfg) ])

\* Step 4: sort(..., reverse=True) keeps equal keys in their order too
sell_candidates(ws) ==
    LET c == SelectSeq(ws, LAMBDA w : w.export_cents.num > 0)
    IN  StableSort(c, [ i \in 1..Len(c) |-> FracNeg(c[i].export_cents) ])

\* margin = sell_revenue - buy_cost
Margin(charge_w, sell_w, pcfg) ==
    FracSub(sell_w.export_cents, BuyCost(charge_w, pcfg))

MinMargin == 5

ScheduledAction(w, action, reason, import_price, export_price, priority) ==
    [ start_time |-> w.start, end_time |-> w.end, action |-> action,
      reason |-> reason, import_price |-> import_price,
      export_price |-> export_price, priority |-> priority ]

\* step 5 without the `time_idx >= sell_w["time_idx"]: continue` of its
\* inner loop
PairedCharge_AnyOrder(charges, sell_w, charged, pcfg) ==
    LET ok == { j \in 1..Len(charges) :
                  /\ charges[j].key \notin charged
                  /\ ~FracGt(Frac(MinMargin, 1),
                             Margin(charges[j], sell_w, pcfg)) }
    IN  IF ok = {} THEN 0 ELSE CHOOSE j \in ok : \A i \in ok : j <= i

\* step 5 without the `key in charged_windows: continue` of its inner loop
PairedCharge_Reuse(charges, sell_w, charged, pcfg) ==
    LET ok == { j \in 1..Len(charges) :
                  /\ charges[j].time_idx < sell_w.time_idx
                  /\ ~FracGt(Frac(MinMargin, 1),
                             Margin(charges[j], sell_w, pcfg)) }
    IN  IF ok = {} THEN 0 ELSE CHOOSE j \in ok : \A i \in ok : j <= i

\* the charge window the inner loop of step 5 stops at for a sell window
\* (its index in the candidates, 0 if the loop runs out)
PairedCharge(charges, sell_w, charged, pcfg) ==
    LET ok == { j \in 1..Len(charges) :
                  /\ charges[j].key \notin charged
                  /\ charges[j].time_idx < sell_w.time_idx
                  /\ ~FracGt(Frac(MinMargin, 1),
                             Margin(charges[j], sell_w, pcfg)) }
    IN  IF ok = {} THEN 0 ELSE CHOOSE j \in ok : \A i \in ok : j <= i

\* a pair that always trades a full window: window_kwh without the min()
\* against what is left
AddPair_FullWindow(st, charge_w, sell_w, pcfg) ==
    LET window_kwh == pcfg.max_charge_kw * 5
        with_charge ==
            IF charge_w.key \notin st.charged_windows
            THEN Append(st.schedule,
                        ScheduledAction(charge_w, "charge_grid", <<"Buy at ">>,
                                        charge_w.import_cents, Frac(0, 1), 1))
            ELSE st.schedule
        with_sell ==
            IF sell_w.key \notin st.sold_windows
            THEN Append(with_charge,
                        ScheduledAction(sell_w, "sell_grid", <<"Sell at ">>,
                                        Frac(0, 1), sell_w.export_cents, 1))
            ELSE with_charge
    IN  [ schedule |-> with_sell,
          remaining_capacity |-> st.remaining_capacity - window_kwh,
          charged_windows |-> st.charged_windows \cup {charge_w.key},
          sold_windows |-> st.sold_windows \cup {sell_w.key} ]

\* one charge->sell pair put on the schedule
AddPair(st, charge_w, sell_w, pcfg) ==
    LET window_kwh == Min(pcfg.max_charge_kw * 5, st.remaining_capacity)
        with_charge ==
            IF charge_w.key \notin st.charged_windows
            THEN Append(st.schedule,
                        ScheduledAction(charge_w, "charge_grid", <<"Buy at ">>,
                                        charge_w.import_cents, Frac(0, 1), 1))
            ELSE st.schedule
        with_sell ==
            IF sell_w.key \notin st.sold_windows
            THEN Append(with_charge,
                        ScheduledAction(sell_w, "sell_grid", <<"Sell at ">>,
                                        Frac(0, 1), sell_w.export_cents, 1))
            ELSE with_charge
    IN  [ schedule |-> with_sell,
          remaining_capacity |-> st.remaining_capacity - window_kwh,
          charged_windows |-> st.charged_windows \cup {charge_w.key},
          sold_windows |-> st.sold_windows \cup {sell_w.key} ]

RECURSIVE MatchPairs(_, _, _, _)
\* Step 5: for sell_w in sell_candidates: ...
MatchPairs(sells, charges, st, pcfg) ==
    IF sells = <<>> \/ st.remaining_capacity <= 0 THEN st
    ELSE LET j == PairedCharge(charges, Head(sells), st.charged_windows, pcfg)
         IN  IF j = 0 THEN MatchPairs(Tail(sells), charges, st, pcfg)
             ELSE MatchPairs(Tail(sells), charges,
                             AddPair(st, charges[j], Head(sells), pcfg), pcfg)

RECURSIVE CommittedPairs(_, _, _, _)
\* The (charge_w, sell_w) pairs for which the inner loop of step 5 reaches
\* its `break`, in the order they are committed, with what was left to
\* trade when the pair was committed and the energy the pair took
CommittedPairs(sells, charges, st, pcfg) ==
    IF sells = <<>> \/ st.remaining_capacity <= 0 THEN <<>>
    ELSE LET j == PairedCharge(charges, Head(sells), st.charged_windows, pcfg)
         IN  IF j = 0 THEN CommittedPairs(Tail(sells), charges, st, pcfg)
             ELSE LET after == AddPair(st, charges[j], Head(sells), pcfg)
                  IN  << [ charge |-> charges[j], sell |-> Head(sells),
                           remaining |-> st.remaining_capacity,
                           window_kwh |-> st.remaining_capacity
                                            - after.remaining_capacity ] >>
                      \o CommittedPairs(Tail(sells), charges, after, pcfg)

RECURSIVE SortFracs(_)
\* sorted(values)
SortFracs(s) ==
    IF s = <<>> THEN <<>>
    ELSE LET i == CHOOSE x \in 1..Len(s) :
                    \A y \in 1..Len(s) : ~FracGt(s[x], s[y])
         IN  <<s[i]>> \o SortFracs(SubSeq(s, 1, i - 1) \o SubSeq(s, i + 1, Len(s)))

_median(values) ==
    IF values = <<>> THEN Frac(0, 1)
    ELSE LET s == SortFracs(values)
             n == Len(s)
             lo == s[n \div 2]
             hi == s[(n \div 2) + 1]
         IN  IF n % 2 = 1 THEN hi
             ELSE FracDiv(FracAdd(lo, hi), Frac(2, 1))

TARIFF_SELF_CONSUME_BONUS(t) ==
    CASE t = "peak" -> 15
      [] t = "shoulder" -> 5
      [] OTHER -> 0

\* Step 6: the self_consume actions, in the order they are appended
SelfConsume(ws, charged, sold) ==
    LET median_price == _median([ i \in 1..Len(ws) |-> ws[i].import_cents ])
        free == SelectSeq(ws, LAMBDA w : /\ w.key \notin sold
                                         /\ w.key \notin charged
                                         /\ w.net_kw > 0)
        candidates ==
            StableSort(free, [ i \in 1..Len(free) |->
                FracNeg(FracAdd(free[i].import_cents,
                    Frac(TARIFF_SELF_CONSUME_BONUS(free[i].tariff), 1))) ])
        chosen ==
            SelectSeq(candidates,
                      LAMBDA w : \/ w.tariff \in {"peak", "shoulder"}
                                 \/ FracGt(w.import_cents, median_price)
                                 \/ w.spike_risk)
    IN  [ i \in 1..Len(chosen) |->
            ScheduledAction(chosen[i], "self_consume",
                            <<"{import_cents}", "c">>,
                            chosen[i].import_cents, Frac(0, 1), 2) ]

SolarMargin == 30

\* Step 7: the charge_solar actions, in the order they are appended
SolarCharge(ws, charged) ==
    LET chosen ==
            SelectSeq(ws, LAMBDA w : /\ w.key \notin charged
                                     /\ w.solar_kw > w.load_kw + SolarMargin)
    IN  [ i \in 1..Len(chosen) |->
            ScheduledAction(chosen[i], "charge_solar", <<"Solar excess ">>,
                            Frac(0, 1), chosen[i].export_cents, 3) ]

\* schedule.sort(key=lambda s: s.start_time)
SortByStart(sched) ==
    StableSort(sched, [ i \in 1..Len(sched) |-> Frac(sched[i].start_time, 1) ])

CountAction(sched, action) ==
    Cardinality({ i \in 1..Len(sched) : sched[i].action = action })

DayPlan(sched, charged, sold) ==
    [ created |-> TRUE,
      schedule |-> sched,
      summary |-> [ arbitrage_pairs |-> Cardinality(charged),
                    charge_windows |-> Cardinality(charged),
                    sell_windows |-> Cardinality(sold),
                    self_consume_windows |-> CountAction(sched, "self_consume"),
                    solar_charge_windows |-> CountAction(sched, "charge_solar") ] ]

_empty_plan == DayPlan(<<>>, {}, {})

build_day_plan(general, feedin, solar_forecast, profile, pcfg, is_weekday) ==
    LET ws0 == _build_windows(general, feedin)
        ws  == Overlay(ws0, solar_forecast, profile, is_weekday)
        st  == MatchPairs(sell_candidates(ws), charge_candidates(ws, pcfg),
                          [ schedule |-> <<>>,
                            remaining_capacity |-> PlanUsableKwh(pcfg),
                            charged_windows |-> {},
                            sold_windows |-> {} ], pcfg)
        all == st.schedule
                 \o SelfConsume(ws, st.charged_windows, st.sold_windows)
                 \o SolarCharge(ws, st.charged_windows)
    IN  IF ws0 = <<>> THEN _empty_plan
        ELSE DayPlan(SortByStart(all), st.charged_windows, st.sold_windows)

\* action_for_time with `start_time < t` for `start_time <= t`
action_for_time_AfterStart(plan, hour, minute) ==
    LET t == TimeKey(hour, minute)
        hits == { i \in 1..Len(plan.schedule) :
                    /\ plan.schedule[i].start_time < t
                    /\ t < plan.schedule[i].end_time }
    IN  IF hits = {} THEN 0 ELSE CHOOSE i \in hits : \A j \in hits : i <= j

\* DayPlan.action_for_time: the first action with start <= "HH:MM" < end
\* (0: None)
action_for_time(plan, hour, minute) ==
    LET t == TimeKey(hour, minute)
        hits == { i \in 1..Len(plan.schedule) :
                    /\ plan.schedule[i].start_time <= t
                    /\ t < plan.schedule[i].end_time }
    IN  IF hits = {} THEN 0 ELSE CHOOSE i \in hits : \A j \in hits : i <= j

NoOverride == [override |-> FALSE, action |-> "", reason |-> <<"">>]
ExtremeExport == 500

should_override(current_import, current_export, spike_status) ==
    IF spike_status = "actual"
    THEN [override |-> TRUE, action |-> "discharge_house",
          reason |-> <<"SPIKE OVERRIDE (", "{current_import}">>]
    ELSE IF spike_status = "potential"
    THEN [override |-> TRUE, action |-> "charge_grid",
          reason |-> <<"SPIKE WARNING ">>]
    ELSE IF current_import <= 0
    THEN [override |-> TRUE, action |-> "charge_grid",
          reason |-> <<"NEGATIVE PRICE OVERRIDE (", "{current_import}">>]
    ELSE IF current_export > ExtremeExport
    THEN [override |-> TRUE, action |-> "sell_grid",
          reason |-> <<"EXTREME EXPORT OVERRIDE (", "{current_export}">>]
    ELSE NoOverride

(***************************************************************************)
(* SpecPlan: build_day_plan, step by step, on the forecasts of one day.    *)
(***************************************************************************)
G(hour, minute, perKwh, period, status) ==
    RawInterval("general", "ForecastInterval", 0, hour, minute, perKwh,
                period, status)

F(hour, minute, perKwh) ==
    RawInterval("feedIn", "ForecastInterval", 0, hour, minute, perKwh,
                "none", "none")

\* A general interval of the second day of the 48-hour horizon.
NextDay(hour, minute, perKwh) ==
    RawInterval("general", "ForecastInterval", 1, hour, minute, perKwh,
                "none", "none")

\* The general channel: an interval that has passed, then 10:00, 10:35 and
\* 17:00, with or without 17:05; or a horizon that runs on to 03:00 and
\* 10:00 of the next day. The evening is in the peak period.
PlanGeneral ==
    { <<>> } \cup
    { << RawInterval("general", "ActualInterval", 0, 9, 30, 25, "none", "none"),
         G(10, 0, a, "none", "none"), G(10, 35, b, "none", sp),
         G(17, 0, c, "peak", "none") >> \o tail :
        a \in {-3, 4, 10}, b \in {4, 10, 40}, sp \in {"none", "potential"},
        c \in {10, 40}, tail \in { <<>>, << G(17, 5, 44, "peak", "none") >> } }
    \cup
    { << G(10, 0, 4, "none", "none"), G(10, 35, b, "none", "none"),
         G(17, 0, c, "peak", "none"),
         NextDay(3, 0, 2), NextDay(10, 0, 30) >> :
        b \in {4, 10}, c \in {10, 40} }

\* The feed-in channel (Amber reports what is paid as a negative price)
PlanFeedIn ==
    { << F(10, 0, x) >> \o mid \o << F(17, 0, z) >> :
        x \in {0, -2}, mid \in { <<>>, << F(10, 30, -12) >>, << F(10, 30, -40) >> },
        z \in {-12, -60} }

PlanWeather ==
    { NoWeather,
      [time |-> <<9, 10, 17>>, direct_radiation |-> <<0, 300, 0>>],
      [time |-> <<10, 17>>, direct_radiation |-> <<25>>] }

FlatProfile ==
    [ learned |-> TRUE, hours |-> [ h \in 0..23 |->
        [ weekday_import_kw |-> 100, weekend_import_kw |-> 20,
          weekday_export_kw |-> 0, weekend_export_kw |-> 50 ] ] ]

PlanProfiles == {NoProfile, FlatProfile}

\* A small battery: one window at full rate uses up what it can trade.
SmallBatteryConfig ==
    [ DefaultConfig EXCEPT !.battery_capacity_kwh = 300 ]

PlanConfigs == {DefaultConfig, SmallBatteryConfig}

InitPlan ==
    /\ pc = "plan_input"
    /\ cfg \in PlanConfigs
    /\ plan_in \in [ general : PlanGeneral, feedin : PlanFeedIn,
                     solar_forecast : PlanWeather, profile : PlanProfiles ]
    /\ weekday \in (IF plan_in.profile = NoProfile THEN {TRUE} ELSE BOOLEAN)
    /\ windows = <<>>
    /\ schedule = <<>>
    /\ charged_windows = {}
    /\ sold_windows = {}
    /\ remaining_capacity = 0
    /\ pairs = <<>>
    /\ day_plan = NoPlan
    /\ now_hour = 0
    /\ snap = NoSnap
    /\ decision = NoDecision
    /\ EngineIdle
    /\ RetryIdle
    /\ MonitorIdle

\* Steps 1 and 2; without windows the empty plan is returned
PlanBuildWindows ==
    /\ pc = "plan_input"
    /\ windows' = Overlay(_build_windows(plan_in.general, plan_in.feedin),
                          plan_in.solar_forecast, plan_in.profile, weekday)
    /\ remaining_capacity' = PlanUsableKwh(planner_config(cfg))
    /\ IF windows' = <<>>
       THEN day_plan' = _empty_plan /\ pc' = "plan_done"
       ELSE day_plan' = day_plan /\ pc' = "plan_windows"
    /\ UNCHANGED <<plan_in, schedule, charged_windows, sold_windows, pairs>>
    /\ UNCHANGED <<decideVars, engineVars, retryVars, monVars>>

\* Steps 3 to 5
PlanArbitrage ==
    /\ pc = "plan_windows"
    /\ LET pcfg == planner_config(cfg)
           st == MatchPairs(sell_candidates(windows),
                            charge_candidates(windows, pcfg),
                            [ schedule |-> schedule,
                              remaining_capacity |-> remaining_capacity,
                              charged_windows |-> charged_windows,
                              sold_windows |-> sold_windows ], pcfg)
       IN  /\ schedule' = st.schedule
           /\ remaining_capacity' = st.remaining_capacity
           /\ charged_windows' = st.charged_windows
           /\ sold_windows' = st.sold_windows
           /\ pairs' = CommittedPairs(sell_candidates(windows),
                                      charge_candidates(windows, pcfg),
                                      [ schedule |-> schedule,
                                        remaining_capacity |-> remaining_capacity,
                                        charged_windows |-> charged_windows,
                                        sold_windows |-> sold_windows ], pcfg)
    /\ pc' = "plan_matched"
    /\ UNCHANGED <<plan_in, windows, day_plan>>
    /\ UNCHANGED <<decideVars, engineVars, retryVars, monVars>>

\* Step 6
PlanSelfConsume ==
    /\ pc = "plan_matched"
    /\ schedule' = schedule \o SelfConsume(windows, charged_windows, sold_windows)
    /\ pc' = "plan_self_consume"
    /\ UNCHANGED <<plan_in, windows, charged_windows, sold_windows,
                   remaining_capacity, pairs, day_plan>>
    /\ UNCHANGED <<decideVars, engineVars, retryVars, monVars>>

\* Step 7
PlanSolarCharge ==
    /\ pc = "plan_self_consume"
    /\ schedule' = schedule \o SolarCharge(windows, charged_windows)
    /\ pc' = "plan_solar"
    /\ UNCHANGED <<plan_in, windows, charged_windows, sold_windows,
                   remaining_capacity, pairs, day_plan>>
    /\ UNCHANGED <<decideVars, engineVars, retryVars, monVars>>

\* the schedule is sorted by time and the DayPlan returned
PlanReturn ==
    /\ pc = "plan_solar"
    /\ schedule' = SortByStart(schedule)
    /\ day_plan' = DayPlan(schedule', charged_windows, sold_windows)
    /\ pc' = "plan_done"
    /\ UNCHANGED <<plan_in, windows, charged_windows, sold_windows,
                   remaining_capacity, pairs>>
    /\ UNCHANGED <<decideVars, engineVars, retryVars, monVars>>

NextPlan ==
    \/ PlanBuildWindows
    \/ PlanArbitrage
    \/ PlanSelfConsume
    \/ PlanSolarCharge
    \/ PlanReturn

SpecPlan == InitPlan /\ [][NextPlan]_vars

\* The steps return what build_day_plan returns when applied in one go.
PlanStepsAgree ==
    pc = "plan_done" =>
        day_plan = build_day_plan(plan_in.general, plan_in.feedin,
                                  plan_in.solar_forecast, plan_in.profile,
                                  planner_config(cfg), weekday)

\* two ScheduledActions cover a common stretch of time
Overlap(a, b) == a.start_time < b.end_time /\ b.start_time < a.end_time

\* C10: in a DayPlan returned by build_day_plan no two ScheduledActions cover
\* the same 30-minute window: the windows of the charge_grid, sell_grid,
\* self_consume and charge_solar actions are pairwise disjoint.
C10_WindowsDisjoint ==
    pc = "plan_done" =>
        \A i, j \in 1..Len(day_plan.schedule) :
            i # j => ~Overlap(day_plan.schedule[i], day_plan.schedule[j])

\* C16: for the same forecast, solar forecast, profile and battery config,
\* build_day_plan returns the same schedule and summary whenever it is
\* called: the plan returned is the plan of a call on any day of the week.
C16_PlanDeterministic ==
    pc = "plan_done" =>
        \A is_weekday \in BOOLEAN :
            LET other == build_day_plan(plan_in.general, plan_in.feedin,
                                        plan_in.solar_forecast, plan_in.profile,
                                        planner_config(cfg), is_weekday)
            IN  /\ day_plan.schedule = other.schedule
                /\ day_plan.summary = other.summary

\* C11: every charge_grid/sell_grid pair that build_day_plan commits, with
\* charge window C and sell window S, has a margin
\* S.export_cents - (C.import_cents / efficiency + cycle_cost) of at least
\* 5 c/kWh, and C.time_idx < S.time_idx.
C11_PairsProfitableAndOrdered ==
    \A i \in 1..Len(pairs) :
        LET pcfg == planner_config(cfg)
            eff  == Frac(pcfg.round_trip_efficiency, 100)
            cycle_cost == Frac(pcfg.cycle_cost_cents * 100,
                               pcfg.battery_capacity_kwh)
            C == pairs[i].charge
            S == pairs[i].sell
            margin == FracSub(S.export_cents,
                              FracAdd(FracDiv(C.import_cents, eff), cycle_cost))
        IN  /\ ~FracGt(Frac(5, 1), margin)
            /\ C.time_idx < S.time_idx

\* a returned plan with two committed pairs, both actions of each scheduled
C11_Witness ==
    /\ pc = "plan_done"
    /\ Len(pairs) = 2
    /\ \A i \in 1..Len(pairs) :
          /\ \E k \in 1..Len(day_plan.schedule) :
                /\ day_plan.schedule[k].action = "charge_grid"
                /\ day_plan.schedule[k].start_time = pairs[i].charge.start
          /\ \E k \in 1..Len(day_plan.schedule) :
                /\ day_plan.schedule[k].action = "sell_grid"
                /\ day_plan.schedule[k].start_time = pairs[i].sell.start

\* When an interval starts, counted over the dates of the horizon.
Stamp(p) == p.day * 2400 + TimeKey(p.hour, p.minute)

\* The general forecast intervals a window was built from.
IntervalsOf(w) == InSlot(plan_in.general, w.key)

\* C24: for every committed charge/sell pair the charge window lies before
\* the sell window in real time: each 5-minute interval of the charge window
\* starts before each interval of the sell window, wherever in the day the
\* 48-hour forecast starts.
C24_ChargeBeforeSellInTime ==
    \A k \in 1..Len(pairs) :
        LET c == IntervalsOf(pairs[k].charge)
            s == IntervalsOf(pairs[k].sell)
        IN  \A i \in 1..Len(c), j \in 1..Len(s) : Stamp(c[i]) < Stamp(s[j])

\* C25: every window aggregates 5-minute forecast intervals of one and the
\* same 30-minute period only: at most six per channel, all of one date.
C25_WindowIsOnePeriod ==
    \A k \in 1..Len(windows) :
        LET g == InSlot(plan_in.general, windows[k].key)
            f == InSlot(plan_in.feedin, windows[k].key)
        IN  /\ Len(g) <= 6 /\ Len(f) <= 6
            /\ \A i, j \in 1..Len(g) : g[i].day = g[j].day
            /\ \A i, j \in 1..Len(f) : f[i].day = f[j].day

\* The energy of the first n committed pairs, kWh/100.
RECURSIVE CommittedKwh(_)
CommittedKwh(n) ==
    IF n = 0 THEN 0 ELSE CommittedKwh(n - 1) + pairs[n].window_kwh

\* C26: the energy committed to arbitrage never exceeds the usable capacity:
\* every committed pair takes window_kwh = min(max_charge_kw * 0.5, remaining)
\* > 0, no pair is committed once remaining <= 0, and the window_kwh of all
\* pairs sum to at most capacity * (1 - min_soc_pct / 100).
C26_ArbitrageWithinCapacity ==
    LET pcfg == planner_config(cfg)
        usable == (pcfg.battery_capacity_kwh * (100 - pcfg.min_soc_pct))
                      \div 100
    IN  /\ \A i \in 1..Len(pairs) :
              /\ pairs[i].remaining > 0
              /\ pairs[i].remaining = usable - CommittedKwh(i - 1)
              /\ pairs[i].window_kwh
                    = Min(pcfg.max_charge_kw * 5, pairs[i].remaining)
              /\ pairs[i].window_kwh > 0
        /\ CommittedKwh(Len(pairs)) <= usable
        /\ pc \in {"plan_matched", "plan_self_consume", "plan_solar"}
              => remaining_capacity = usable - CommittedKwh(Len(pairs))

\* The small battery: the first pair takes all 2.4 kWh there are, less than a
\* full window, and the second sell window, which has a profitable charge
\* window left, is not paired.
C26_Witness ==
    /\ pc = "plan_done"
    /\ cfg = SmallBatteryConfig
    /\ Len(pairs) = 1
    /\ pairs[1].window_kwh = 240
    /\ remaining_capacity = 0
    /\ \E k \in 1..Len(windows) :
          /\ windows[k].key # pairs[1].sell.key
          /\ windows[k].export_cents.num > 0
          /\ PairedCharge(charge_candidates(windows, planner_config(cfg)),
                          windows[k], charged_windows,
                          planner_config(cfg)) # 0

\* C30: each window is the charge side of at most one committed pair and the
\* sell side of at most one, and the summary of the returned plan has
\* arbitrage_pairs = charge_windows = sell_windows = the number of
\* charge_grid actions = the number of sell_grid actions of the schedule
\* (= the number of pairs committed).
C30_PairsCountedOnce ==
    /\ \A i, j \in 1..Len(pairs) :
          i # j => /\ pairs[i].charge.key # pairs[j].charge.key
                   /\ pairs[i].sell.key # pairs[j].sell.key
    /\ pc = "plan_done" =>
          /\ day_plan.summary.arbitrage_pairs = Len(pairs)
          /\ day_plan.summary.charge_windows = Len(pairs)
          /\ day_plan.summary.sell_windows = Len(pairs)
          /\ CountAction(day_plan.schedule, "charge_grid") = Len(pairs)
          /\ CountAction(day_plan.schedule, "sell_grid") = Len(pairs)

\* Two pairs of the default battery: the cheapest window charges for the
\* best sell window, the next one for the second.
C30_Witness ==
    /\ pc = "plan_done"
    /\ cfg = DefaultConfig
    /\ day_plan.summary.arbitrage_pairs = 2
    /\ day_plan.summary.sell_windows = 2
    /\ CountAction(day_plan.schedule, "charge_grid") = 2
    /\ pairs[1].charge.key # pairs[2].charge.key
    /\ pairs[1].sell.export_cents.num > pairs[2].sell.export_cents.num

(***************************************************************************)
(* monitor.py: analyse_forecast, estimate_solar, gridpilot_recommendation  *)
(* and run(). The emoji that leads a label or a reason is left out, and so *)
(* are the keys of the analysis that only the dashboard prints. The        *)
(* learner is not part of the sources: the loop runs without a profile, as *)
(* it does when learning failed at startup.                                *)
(***************************************************************************)
ByChannel(prices, ch) == SelectSeq(prices, LAMBDA p : p.channelType = ch)
ForecastOf(prices) == SelectSeq(prices, LAMBDA p : p.type = "ForecastInterval")

DefaultForecastPrice == 30
DefaultForecastExport == 5

analyse_forecast(all_prices) ==
    LET forecast_gen == ForecastOf(ByChannel(all_prices, "general"))
        forecast_fi  == ForecastOf(ByChannel(all_prices, "feedIn"))
        prices    == IF forecast_gen # <<>> THEN PerKwh(forecast_gen)
                     ELSE <<DefaultForecastPrice>>
        fi_prices == IF forecast_gen = <<>> THEN <<DefaultForecastExport>>
                     ELSE IF forecast_fi # <<>> THEN AbsPerKwh(forecast_fi)
                     ELSE <<0>>
        sorted_fi == StableSort(forecast_fi,
                        [ i \in 1..Len(forecast_fi) |->
                            Frac(-Abs(forecast_fi[i].perKwh), 1) ])
    IN  [ forecast_max |-> SeqMax(Tail(prices), Head(prices)),
          forecast_avg |-> Frac(SeqSum(prices), Len(prices)),
          export_max |-> SeqMax(Tail(fi_prices), Head(fi_prices)),
          export_avg |-> Frac(SeqSum(fi_prices), Len(fi_prices)),
          best_sell_windows |->
              IF forecast_gen = <<>> THEN <<>>
              ELSE SubSeq(sorted_fi, 1, Min(5, Len(sorted_fi))) ]

\* weather["direct_radiation"][hour], in kW/100
estimate_solar(weather, hour) ==
    IF hour < Len(weather.direct_radiation)
    THEN SolarKw(weather.direct_radiation[hour + 1])
    ELSE 0

Advice(action, reason, confidence) ==
    [action |-> action, reason |-> reason, confidence |-> confidence]

\* x > y * n/d
GtTimes(x, y, n, d) == FracGt(Frac(x, 1), Frac(y.num * n, y.den * d))

gridpilot_recommendation(import, export, analysis, solar_kw, hour, c, tariff) ==
    LET storage_cost ==
            FracAdd(Frac(import * 100, c.battery_round_trip_efficiency),
                    Frac(c.battery_cycle_cost_cents * 100,
                         c.battery_capacity_kwh))
        margin == FracSub(Frac(analysis.forecast_max, 1), storage_cost)
        avg_price == analysis.forecast_avg
        top3 == SubSeq(analysis.best_sell_windows, 1,
                       Min(3, Len(analysis.best_sell_windows)))
        future_better ==
            \E i \in 1..Len(top3) : Abs(top3[i].perKwh) * 10 > export * 13
    IN  IF import <= 0
        THEN Advice("CHARGE FROM GRID", <<"Negative price! Earn ">>, 99)
        ELSE IF import < c.charge_price_threshold_cents
                /\ FracGt(margin, Frac(8, 1))
        THEN Advice("CHARGE FROM GRID", <<"Cheap (", "{import_cents}">>, 85)
        ELSE IF import < c.charge_price_threshold_cents
                /\ FracGt(margin, Frac(3, 1))
        THEN Advice("CHARGE FROM GRID", <<"Moderate arbitrage (">>, 60)
        ELSE IF export > c.sell_price_threshold_cents /\ future_better
        THEN Advice("HOLD", <<"Export good (", "{export_cents}">>, 70)
        ELSE IF export > c.sell_price_threshold_cents
        THEN Advice("SELL TO GRID", <<"High export (", "{export_cents}">>, 85)
        ELSE IF solar_kw > 50 /\ GtTimes(export, avg_price, 8, 10)
        THEN Advice("SOLAR -> GRID", <<"Solar ~", "{expected_solar}">>, 70)
        ELSE IF solar_kw > 50
        THEN Advice("SOLAR -> BATTERY", <<"Solar ~", "{expected_solar}">>, 80)
        ELSE IF tariff = "peak" /\ GtTimes(import, avg_price, 8, 10)
        THEN Advice("SELF-CONSUME", <<"[PEAK tariff] import ">>, 90)
        ELSE IF tariff = "shoulder" /\ GtTimes(import, avg_price, 1, 1)
        THEN Advice("SELF-CONSUME", <<"[SHOULDER tariff] import ">>, 75)
        ELSE IF 16 <= hour /\ hour < 21 /\ GtTimes(import, avg_price, 1, 1)
        THEN Advice("SELF-CONSUME", <<"Evening peak, import ">>, 80)
        \* rule 6 needs analysis["learned_load_kw"], set only with a profile
        ELSE Advice("IDLE", <<"No clear opportunity. Import ">>, 50)

\* The label the dashboard shows for an action of an override or of the plan
ActionLabel(action) ==
    CASE action = "charge_grid" -> "CHARGE FROM GRID"
      [] action = "sell_grid" -> "SELL TO GRID"
      [] action = "discharge_house" -> "SPIKE SHIELD"
      [] action = "self_consume" -> "SELF-CONSUME"
      [] action = "charge_solar" -> "SOLAR -> BATTERY"
      [] OTHER -> action

DefaultImportCents == 30
DefaultExportCents == 5

\* next((p["perKwh"] for p in current if channelType == "general"), 30)
CurrentImport(current) ==
    LET g == ByChannel(current, "general")
    IN  IF g = <<>> THEN DefaultImportCents ELSE g[1].perKwh

\* abs(next((p["perKwh"] for p in current if channelType == "feedIn"), 5))
CurrentExport(current) ==
    LET f == ByChannel(current, "feedIn")
    IN  IF f = <<>> THEN DefaultExportCents ELSE Abs(f[1].perKwh)

CurrentSpike(current) ==
    LET g == ByChannel(current, "general")
    IN  IF g = <<>> THEN "none" ELSE g[1].spikeStatus

CurrentTariff(current) ==
    LET g == ByChannel(current, "general")
    IN  IF g = <<>> THEN "offPeak" ELSE PeriodOf(g[1])

\* if day_plan is None or hour != last_plan_hour
\*    or (minute < 6 and last_plan_hour == hour)
PlanIsStale(plan, hour, minute, last_hour) ==
    \/ plan = NoPlan
    \/ hour # last_hour
    \/ (minute < 6 /\ last_hour = hour)

\* the plan the cycle goes on with
CyclePlan(plan, f, hour, minute, last_hour, c, is_weekday) ==
    IF PlanIsStale(plan, hour, minute, last_hour)
    THEN build_day_plan(ByChannel(f.all_prices, "general"),
                        ByChannel(f.all_prices, "feedIn"),
                        f.weather, NoProfile, planner_config(c), is_weekday)
    ELSE plan

\* (action, reason, confidence) of a cycle: override, plan or recommendation
CycleAdvice(plan, f, hour, minute, c) ==
    LET import == CurrentImport(f.current)
        export == CurrentExport(f.current)
        ov == should_override(import, export, CurrentSpike(f.current))
        planned == action_for_time(plan, hour, minute)
    IN  IF ov.override
        THEN Advice(ActionLabel(ov.action), <<"OVERRIDE: ">> \o ov.reason, 95)
        ELSE IF planned # 0
        THEN Advice(ActionLabel(plan.schedule[planned].action),
                    <<"PLAN: ">> \o plan.schedule[planned].reason, 80)
        ELSE gridpilot_recommendation(
                 import, export, analyse_forecast(f.all_prices),
                 estimate_solar(f.weather, hour), hour, c,
                 CurrentTariff(f.current))

MaxCycles == 2

\* What fetch_amber, fetch_weather hand to a cycle; [] and {} are what they
\* return when http_retry ran out of time.
Cur(channel, perKwh, period, status) ==
    RawInterval(channel, "CurrentInterval", 0, 0, 0, perKwh, period, status)

\* the interval with Amber's "descriptor" key, which only the dashboard reads
Described(p, d) == [descriptor |-> d] @@ p

\* import_p.get("descriptor", "?") of the dashboard
CurrentDescriptor(current) ==
    LET g == ByChannel(current, "general")
    IN  IF g = <<>> THEN "?" ELSE g[1].descriptor

MonCurrent ==
    { <<>>,
      << Described(Cur("general", 20, "none", "none"), "neutral"),
         Described(Cur("feedIn", -8, "none", "none"), "neutral") >>,
      << Described(Cur("general", 45, "peak", "none"), "high"),
         Described(Cur("feedIn", -30, "none", "none"), "high") >>,
      << Described(Cur("general", -1, "none", "none"), "extremelyLow"),
         Described(Cur("feedIn", 0, "none", "none"), "extremelyLow") >>,
      << Described(Cur("general", 90, "peak", "potential"), "spike") >> }

MonAllPrices ==
    { <<>>,
      << G(10, 0, 4, "none", "none"), F(10, 0, -2),
         G(10, 35, 4, "none", "none"), F(10, 30, -40),
         G(17, 0, 40, "peak", "none"), F(17, 0, -12) >> }

MonWeather ==
    { NoWeather,
      [ time |-> [i \in 1..24 |-> i - 1],
        direct_radiation |->
            [i \in 1..24 |-> IF i - 1 \in 9..15 THEN 300 ELSE 0] ] }

MonFetches ==
    [ fetched : {TRUE}, current : MonCurrent, all_prices : MonAllPrices,
      weather : MonWeather ]

MonStartTimes == { <<10, 25>>, <<16, 55>> }

InitMonitor ==
    /\ pc = "mon_loop"
    /\ cfg = DefaultConfig
    /\ weekday = TRUE
    /\ \E t \in MonStartTimes : now_hour = t[1] /\ now_minute = t[2]
    /\ cycle = 0
    /\ last_plan_hour = -1
    /\ fetched = NoFetch
    /\ advice = NoAdvice
    /\ ticks = <<>>
    /\ snap = NoSnap
    /\ decision = NoDecision
    /\ EngineIdle
    /\ RetryIdle
    /\ PlanIdle

monitorRest ==
    <<cfg, weekday, snap, decision, tick, health, alerts, summaries, log,
      failed, signal_at, closed, amber_down_run, finished, retryVars, plan_in, windows,
      schedule, charged_windows, sold_windows, remaining_capacity, pairs>>

\* loop.add_signal_handler(sig, shutdown.set)
MonSignal ==
    /\ pc \in {"mon_loop", "mon_cycle", "mon_wait"}
    /\ ~shutdown
    /\ shutdown' = TRUE
    /\ UNCHANGED <<pc, now_hour, day_plan, monVars, monitorRest>>

\* while not shutdown.is_set(): cycle += 1
MonLoopEnter ==
    /\ pc = "mon_loop"
    /\ ~shutdown
    /\ cycle < MaxCycles
    /\ cycle' = cycle + 1
    /\ pc' = "mon_cycle"
    /\ UNCHANGED <<now_hour, now_minute, shutdown, day_plan, last_plan_hour,
                   fetched, advice, ticks, monitorRest>>

MonLoopExit ==
    /\ pc = "mon_loop"
    /\ shutdown
    /\ pc' = "mon_done"
    /\ UNCHANGED <<now_hour, shutdown, day_plan, monVars, monitorRest>>

\* the body of the try runs to its end: the line is written to the log
MonCycle ==
    /\ pc = "mon_cycle"
    /\ fetched' \in MonFetches
    /\ day_plan' = CyclePlan(day_plan, fetched', now_hour, now_minute,
                             last_plan_hour, cfg, weekday)
    /\ last_plan_hour' =
          IF PlanIsStale(day_plan, now_hour, now_minute, last_plan_hour)
          THEN now_hour ELSE last_plan_hour
    /\ advice' = CycleAdvice(day_plan', fetched', now_hour, now_minute, cfg)
    /\ ticks' = Append(ticks,
          [ cycle |-> cycle, hour |-> now_hour, minute |-> now_minute,
            descriptor |-> CurrentDescriptor(fetched'.current),
            rebuilt |-> PlanIsStale(day_plan, now_hour, now_minute,
                                    last_plan_hour) ])
    /\ pc' = "mon_wait"
    /\ UNCHANGED <<now_hour, now_minute, shutdown, cycle, monitorRest>>

\* a statement of the body raises (a fetch_*, the dashboard, the log file):
\* except Exception: logger.error(...)
MonCycleFails ==
    /\ pc = "mon_cycle"
    /\ pc' = "mon_wait"
    /\ UNCHANGED <<now_hour, shutdown, day_plan, monVars, monitorRest>>

MonWaitShutdown ==
    /\ pc = "mon_wait"
    /\ shutdown
    /\ pc' = "mon_done"
    /\ UNCHANGED <<now_hour, shutdown, day_plan, monVars, monitorRest>>

CycleMinutes == 5

\* the wait times out: decision_interval_seconds later
MonWaitTimeout ==
    /\ pc = "mon_wait"
    /\ ~shutdown
    /\ now_minute' = (now_minute + CycleMinutes) % 60
    /\ now_hour' = (now_hour + (now_minute + CycleMinutes) \div 60) % 24
    /\ pc' = "mon_loop"
    /\ UNCHANGED <<shutdown, day_plan, cycle, last_plan_hour, fetched, advice,
                   ticks, monitorRest>>

NextMonitor ==
    \/ MonSignal
    \/ MonLoopEnter
    \/ MonLoopExit
    \/ MonCycle
    \/ MonCycleFails
    \/ MonWaitShutdown
    \/ MonWaitTimeout

SpecMonitor == InitMonitor /\ [][NextMonitor]_vars

\* The engine loop decides by the fallback whenever the current import price
\* is missing from its snapshot.
EngineFallsBack ==
    (pc = "log_record" /\ snap.current_import_price = NoPrice)
        => StartsWith(decision.reason, "FALLBACK:")

\* C5: a tick without a current import price always produces a Decision whose
\* reason begins with "FALLBACK:": the supervisor enters fallback mode for
\* that tick instead of running the price-based cascade with default prices.
C5_NoPriceMeansFallback ==
    (pc = "mon_wait" /\ fetched # NoFetch /\ advice # NoAdvice
        /\ ByChannel(fetched.current, "general") = <<>>)
        => StartsWith(advice.reason, "FALLBACK:")

\* the completed cycle before cycle i that rebuilt the plan (the first
\* completed cycle always does: day_plan is None)
BuiltAt(i) ==
    CHOOSE j \in 1..(i - 1) :
        /\ ticks[j].rebuilt
        /\ \A k \in (j + 1)..(i - 1) : ~ticks[k].rebuilt

MinuteOfDay(t) == t.hour * 60 + t.minute

\* minutes from the build of the plan to cycle i
PlanAge(i) == (MinuteOfDay(ticks[i]) - MinuteOfDay(ticks[BuiltAt(i)])) % 1440

DescriptorEdge(a, b) ==
    a # b /\ {a, b} \cap {"spike", "extremelyLow"} # {}

\* the plan that cycle i (i > 1) finds is stale by the three conditions
StaleAt(i) ==
    \/ ticks[i].hour # ticks[BuiltAt(i)].hour
    \/ DescriptorEdge(ticks[i - 1].descriptor, ticks[i].descriptor)
    \/ PlanAge(i) > 30

\* the rebuild condition of the loop covers the first of the three conditions
RebuiltOnHourChange ==
    \A i \in 2..Len(ticks) :
        ticks[i].hour # ticks[BuiltAt(i)].hour => ticks[i].rebuilt

\* C12: a tick rebuilds the plan whenever the plan it finds is stale, that
\* is whenever the wall-clock hour differs from the hour the plan was built
\* in, or the price descriptor changed from/to spike or extremely_low since
\* the previous tick, or the plan is older than 30 minutes; so no tick
\* decides by a plan older than 30 minutes.
C12_StalePlanRebuilt ==
    \A i \in 2..Len(ticks) : StaleAt(i) => ticks[i].rebuilt

\* the last completed cycle
LastTick == ticks[Len(ticks)]

\* the ScheduledActions of the plan that cover the time of the last cycle
Covering ==
    { k \in 1..Len(day_plan.schedule) :
        /\ day_plan.schedule[k].start_time
              <= LastTick.hour * 100 + LastTick.minute
        /\ LastTick.hour * 100 + LastTick.minute
              < day_plan.schedule[k].end_time }

\* none of the real-time overrides fires on the prices of the last cycle
NoOverrideFires ==
    LET g == SelectSeq(fetched.current, LAMBDA p : p.channelType = "general")
        f == SelectSeq(fetched.current, LAMBDA p : p.channelType = "feedIn")
    IN  /\ g # <<>> => (g[1].spikeStatus = "none" /\ g[1].perKwh > 0)
        /\ f # <<>> => Abs(f[1].perKwh) <= 500

\* C15: at a cycle where no override fires and the DayPlan has a
\* ScheduledAction whose [start, end) covers the current (hour, minute), the
\* loop adopts that action with confidence 0.8; the per-interval
\* recommendation is used only when the plan has no action for that time.
C15_PlanFollowed ==
    (ticks # <<>> /\ NoOverrideFires) =>
        IF Covering # {}
        THEN \E k \in Covering :
                /\ advice.action = ActionLabel(day_plan.schedule[k].action)
                /\ advice.reason = <<"PLAN: ">> \o day_plan.schedule[k].reason
                /\ advice.confidence = 80
        ELSE ~StartsWith(advice.reason, "PLAN: ")

\* the second cycle falls on the first minute of a planned window
C15_Witness ==
    /\ Len(ticks) = 2
    /\ NoOverrideFires
    /\ LastTick.hour = 17 /\ LastTick.minute = 0
    /\ Covering # {}
    /\ StartsWith(advice.reason, "PLAN: ")
    /\ advice.confidence = 80

====
